---- MODULE Spec2Model ----
(***************************************************************************)
(* Model of the Cyberstar signal codec (SCME): the BMC line encoder, the   *)
(* frame builder, the BMC line decoder, the frame synchroniser and the     *)
(* conformance verdict.  Samples are int16 values, bits are 0/1, frames    *)
(* are sequences of bits indexed by 1-based RAE bit number.  Python float  *)
(* seconds are modelled as whole microseconds and tolerances as whole      *)
(* percent, so that every floor/ceil of the source is an integer division. *)
(***************************************************************************)
EXTENDS Integers, Sequences, FiniteSets, TLC

VARIABLES
    level,      \* BMCEncoder._level of the encoder session
    pcm,        \* samples: the session's concatenated output / the decoder's input
    sent,       \* bits handed to encode_bits in this session, in order
    seam,       \* Len(pcm) at the start of the latest encode_bits call
    calls,      \* number of encode_bits calls in this session
    tol,        \* BMCDecoder.tolerance, in percent
    track,      \* FrameBuilder.track: "TD" or "BD"
    impl,       \* class of the builder: "FrameBuilder" or "_FrameBuilder" (export bridge)
    frame,      \* FrameBuilder._frame
    ret,        \* the latest call on the builder and whether it raised
    output,     \* bytes returned by the latest build
    encoded,    \* frame states the latest build handed to encode_frame
    events,     \* event list argument of the latest build
    duration,   \* duration argument of the latest build, in microseconds
    stream,     \* flat bit list handed to sync_frames
    sync,       \* SyncResult of the latest sync_frames call
    timeline,   \* what the latest channel_timeline call returned
    entry,      \* conformance entry point: "verify_and_decode" or "run_sim"
    selection,  \* the track argument of run_sim: "TD", "BD" or "BOTH"
    measured,   \* per track, what decoding and synchronising its channel gave
    verdict,    \* outcome of the conformance run
    audio_data,  \* bytes of the stereo WAV handed to the serializer
    signal_data, \* the signal-code list (signalData)
    container,   \* bytes the serializer returned
    td_frames,   \* decoded TD frames handed to the signal builder
    bd_frames,   \* decoded BD frames handed to the signal builder
    audio_len,   \* len(audio_l): samples of the music channel
    wav,         \* the WAV file handed to the converter
    outcome,     \* how the last .rshw call ended: "" before it
    text,        \* code points of the string handed to _lps
    encoding     \* bytes _lps returned

encVars == <<level, pcm, sent, seam, calls, tol>>
fbVars == <<track, impl, frame, ret, output, encoded, events, duration>>
syncVars == <<stream, sync, timeline>>
simVars == <<entry, selection, measured, verdict>>
rshwVars == <<audio_data, signal_data, container, td_frames, bd_frames, audio_len,
             wav, outcome, text, encoding>>
vars == <<encVars, fbVars, syncVars, simVars, rshwVars>>

----------------------------------------------------------------------------
(* SMM/constants.py                                                        *)

SAMPLE_RATE == 44100
BAUD_RATE == 4800
SAMPLES_PER_BIT == SAMPLE_RATE \div BAUD_RATE
BMC_HALF_A == SAMPLES_PER_BIT \div 2
BMC_HALF_B == SAMPLES_PER_BIT - BMC_HALF_A
BMC_HIGH == 32767
BMC_LOW == -32768

TD_CHANNELS ==
    ("rolfe_mouth" :> 1) @@ ("rolfe_left_eyelid" :> 2) @@ ("rolfe_right_eyelid" :> 3) @@
    ("rolfe_eyes_left" :> 4) @@ ("rolfe_eyes_right" :> 5) @@ ("rolfe_head_left" :> 6) @@
    ("rolfe_head_right" :> 7) @@ ("rolfe_head_up" :> 8) @@ ("rolfe_left_ear" :> 9) @@
    ("rolfe_right_ear" :> 10) @@ ("rolfe_left_arm_raise" :> 11) @@ ("rolfe_left_arm_twist" :> 12) @@
    ("rolfe_left_elbow" :> 13) @@ ("rolfe_body_twist_left" :> 14) @@ ("rolfe_body_twist_right" :> 15) @@
    ("rolfe_body_lean" :> 16) @@ ("rolfe_right_arm_raise" :> 17) @@ ("rolfe_right_arm_twist" :> 18) @@
    ("rolfe_right_elbow_twist" :> 19) @@ ("rolfe_earl_head_tilt" :> 20) @@ ("duke_head_right" :> 21) @@
    ("duke_head_up" :> 22) @@ ("duke_left_ear" :> 23) @@ ("duke_right_ear" :> 24) @@
    ("duke_head_left" :> 25) @@ ("duke_left_eyelid" :> 26) @@ ("duke_right_eyelid" :> 27) @@
    ("duke_eyes_left" :> 28) @@ ("duke_eyes_right" :> 29) @@ ("duke_mouth" :> 30) @@
    ("duke_right_elbow" :> 31) @@ ("duke_left_foot_hihat" :> 32) @@ ("duke_left_arm_swing" :> 33) @@
    ("duke_right_arm_swing" :> 34) @@ ("duke_left_elbow" :> 35) @@ ("earl_mouth" :> 36) @@
    ("earl_eyebrow" :> 37) @@ ("props_sun_mouth" :> 38) @@ ("props_sun_raise" :> 39) @@
    ("specials_dual_pressure_td" :> 40) @@ ("fats_left_eyelid" :> 41) @@ ("fats_right_eyelid" :> 42) @@
    ("fats_eyes_left" :> 43) @@ ("fats_eyes_right" :> 44) @@ ("fats_mouth" :> 45) @@
    ("props_moon_mouth" :> 46) @@ ("props_moon_raise" :> 47) @@ ("props_looney_bird_hands" :> 48) @@
    ("props_antioch_down" :> 49) @@ ("props_baby_bear_raise" :> 50) @@ ("fats_head_tip_left" :> 51) @@
    ("fats_head_tip_right" :> 52) @@ ("fats_head_up" :> 53) @@ ("fats_head_left" :> 54) @@
    ("fats_head_right" :> 55) @@ ("fats_left_arm_swing" :> 57) @@ ("fats_right_arm_swing" :> 58) @@
    ("fats_left_elbow" :> 59) @@ ("fats_right_elbow" :> 60) @@ ("fats_foot_tap" :> 61) @@
    ("fats_body_lean" :> 62) @@ ("duke_right_foot_bass_drum" :> 63) @@ ("duke_body_lean" :> 64) @@
    ("organ_top_blue" :> 66) @@ ("organ_top_red" :> 67) @@ ("organ_top_amber" :> 68) @@
    ("organ_top_green" :> 69) @@ ("organ_leg_top" :> 71) @@ ("organ_leg_mid" :> 72) @@
    ("organ_leg_bottom" :> 73) @@ ("organ_cont_strobe" :> 74) @@ ("organ_flash_strobe" :> 75) @@
    ("sign_inner" :> 76) @@ ("sign_mid" :> 77) @@ ("sign_outer" :> 78) @@
    ("sign_cont_strobe" :> 79) @@ ("sign_flash_strobe" :> 80) @@ ("spot_mitzi" :> 81) @@
    ("spot_beach_bear" :> 82) @@ ("spot_looney_bird" :> 83) @@ ("spot_billy_bob" :> 84) @@
    ("spot_fats" :> 85) @@ ("spot_duke" :> 86) @@ ("spot_rolfe" :> 87) @@
    ("spot_earl" :> 88) @@ ("curtain_stage_right_open" :> 89) @@ ("curtain_stage_right_close" :> 90) @@
    ("curtain_center_stage_open" :> 91) @@ ("curtain_center_stage_close" :> 92) @@ ("curtain_stage_left_open" :> 93) @@
    ("curtain_stage_left_close" :> 94)
BD_CHANNELS ==
    ("beachbear_left_eyelid" :> 1) @@ ("beachbear_right_eyelid" :> 2) @@ ("beachbear_eye_cross" :> 3) @@
    ("beachbear_left_hand_slide" :> 4) @@ ("beachbear_guitar_raise" :> 5) @@ ("beachbear_head_left" :> 6) @@
    ("beachbear_head_right" :> 7) @@ ("beachbear_head_up" :> 8) @@ ("beachbear_left_leg_kick" :> 9) @@
    ("beachbear_right_leg_kick" :> 10) @@ ("beachbear_right_arm_raise" :> 11) @@ ("beachbear_right_arm_twist" :> 12) @@
    ("beachbear_right_elbow_twist" :> 13) @@ ("beachbear_right_wrist" :> 14) @@ ("beachbear_body_lean" :> 15) @@
    ("beachbear_mouth" :> 16) @@ ("looneybird_mouth" :> 17) @@ ("mitzi_right_arm_raise" :> 18) @@
    ("mitzi_right_elbow" :> 19) @@ ("mitzi_right_arm_twist" :> 20) @@ ("looneybird_head_right" :> 21) @@
    ("looneybird_raise" :> 22) @@ ("mitzi_left_arm_raise" :> 23) @@ ("mitzi_left_elbow" :> 24) @@
    ("mitzi_left_arm_twist" :> 25) @@ ("mitzi_left_ear" :> 26) @@ ("mitzi_right_ear" :> 27) @@
    ("mitzi_head_left" :> 28) @@ ("mitzi_head_right" :> 29) @@ ("mitzi_head_up" :> 30) @@
    ("mitzi_left_eyelid" :> 31) @@ ("mitzi_right_eyelid" :> 32) @@ ("mitzi_eyes_left" :> 33) @@
    ("mitzi_eyes_right" :> 34) @@ ("mitzi_mouth" :> 35) @@ ("mitzi_body_twist_left" :> 36) @@
    ("mitzi_body_twist_right" :> 37) @@ ("mitzi_body_lean" :> 38) @@ ("billybob_left_arm_slide" :> 39) @@
    ("billybob_guitar_raise" :> 40) @@ ("looneybird_left_eyelid" :> 41) @@ ("looneybird_right_eyelid" :> 42) @@
    ("looneybird_eye_cross" :> 43) @@ ("billybob_foot_tap" :> 44) @@ ("billybob_mouth" :> 46) @@
    ("billybob_left_eyelid" :> 47) @@ ("billybob_right_eyelid" :> 48) @@ ("billybob_eyes_left" :> 49) @@
    ("billybob_eyes_right" :> 50) @@ ("billybob_head_left" :> 51) @@ ("billybob_head_right" :> 52) @@
    ("billybob_head_tip_left" :> 53) @@ ("billybob_head_tip_right" :> 54) @@ ("billybob_head_up" :> 55) @@
    ("billybob_right_arm_raise" :> 56) @@ ("billybob_right_arm_twist" :> 57) @@ ("billybob_right_elbow_twist" :> 58) @@
    ("billybob_right_wrist" :> 59) @@ ("specials_dual_pressure_bd" :> 60) @@ ("billybob_body_twist_left" :> 61) @@
    ("billybob_body_twist_right" :> 62) @@ ("billybob_body_lean" :> 63) @@ ("specials_tape_stop" :> 64) @@
    ("specials_tape_rewind" :> 65) @@ ("flood_stage_right_blue" :> 66) @@ ("flood_stage_right_green" :> 67) @@
    ("flood_stage_right_amber" :> 68) @@ ("flood_stage_right_red" :> 69) @@ ("prop_light_applause" :> 70) @@
    ("flood_center_stage_blue" :> 71) @@ ("flood_center_stage_green" :> 72) @@ ("flood_center_stage_amber" :> 73) @@
    ("flood_center_stage_red" :> 74) @@ ("prop_light_drums" :> 75) @@ ("flood_stage_left_blue" :> 76) @@
    ("flood_stage_left_green" :> 77) @@ ("flood_stage_left_amber" :> 78) @@ ("flood_stage_left_red" :> 79) @@
    ("prop_light_fire_still" :> 80) @@ ("flood_backdrop_outside_blue" :> 81) @@ ("flood_backdrop_inside_amber" :> 82) @@
    ("flood_treeline_blue" :> 83) @@ ("flood_backdrop_inside_blue" :> 84) @@ ("flood_treeline_red" :> 85) @@
    ("flood_bushes_green" :> 86) @@ ("flood_bushes_red_amber" :> 87) @@ ("spot_sun" :> 88) @@
    ("spot_moon" :> 89) @@ ("spot_spider" :> 90) @@ ("prop_light_gas_pump" :> 91) @@
    ("stage_light_service_stn_red" :> 92) @@ ("stage_light_service_stn_blue" :> 93) @@ ("stage_light_rainbow_1_red" :> 94) @@
    ("stage_light_rainbow_2_yellow" :> 95) @@ ("spot_guitar" :> 96)

TD_BLANK_BITS == {56, 65, 70}
TD_FRAME_BITS == 94
BD_BLANK_BITS == {45}
BD_FRAME_BITS == 96

TD_BIT_TO_NAME ==
    [b \in {TD_CHANNELS[n] : n \in DOMAIN TD_CHANNELS} |->
        CHOOSE n \in DOMAIN TD_CHANNELS : TD_CHANNELS[n] = b]
BD_BIT_TO_NAME ==
    [b \in {BD_CHANNELS[n] : n \in DOMAIN BD_CHANNELS} |->
        CHOOSE n \in DOMAIN BD_CHANNELS : BD_CHANNELS[n] = b]

----------------------------------------------------------------------------
(* Bounds of the model                                                     *)

MaxBits == 3        \* longest bit list handed to one encode_bits call
MaxCalls == 2       \* encode_bits calls per encoder session
MaxChunks == 3      \* constant-valued stretches making up a decoder input
MaxEvents == 2      \* longest event list handed to build

----------------------------------------------------------------------------
(* SGM/bmc_encoder.py                                                      *)

Rep(v, n) == [i \in 1..n |-> v]

Flip(l) == IF l = BMC_LOW THEN BMC_HIGH ELSE BMC_LOW

\* encode_bit without the mid-period transition of a '1'
encode_bit_no_mid(l, bit) ==
    LET l1 == Flip(l)
    IN  IF bit # 0
        THEN [samples |-> Rep(l1, BMC_HALF_A) \o Rep(l1, BMC_HALF_B), level |-> Flip(l1)]
        ELSE [samples |-> Rep(l1, SAMPLES_PER_BIT), level |-> l1]

\* encode_bit with the two parts of a '1' in the other order: HALF_B samples,
\* the mid-period transition, HALF_A samples
encode_bit_long_first(l, bit) ==
    LET l1 == Flip(l)
    IN  IF bit # 0
        THEN LET l2 == Flip(l1)
             IN  [samples |-> Rep(l1, BMC_HALF_B) \o Rep(l2, BMC_HALF_A), level |-> l2]
        ELSE [samples |-> Rep(l1, SAMPLES_PER_BIT), level |-> l1]

\* encode_bit: the samples of one bit and the level the encoder is left at
encode_bit(l, bit) ==
    LET l1 == Flip(l)
    IN  IF bit # 0
        THEN LET l2 == Flip(l1)
             IN  [samples |-> Rep(l1, BMC_HALF_A) \o Rep(l2, BMC_HALF_B), level |-> l2]
        ELSE [samples |-> Rep(l1, SAMPLES_PER_BIT), level |-> l1]

\* the loop of encode_bits with every bit encoded from the level the call
\* started at
encode_range_same_level(l, bits, lo, hi) ==
    [samples |-> [i \in 1..(SAMPLES_PER_BIT * (hi - lo + 1)) |->
                     encode_bit(l, bits[lo + ((i - 1) \div SAMPLES_PER_BIT)])
                         .samples[((i - 1) % SAMPLES_PER_BIT) + 1]],
     level |-> IF lo > hi THEN l ELSE encode_bit(l, bits[hi]).level]

\* the for loop of encode_bits over bits[lo..hi].  The loop is evaluated by
\* halves of the index range (same iterations, same order, the level handed
\* from the first half to the second), which keeps the evaluation shallow.
RECURSIVE encode_range(_, _, _, _)
encode_range(l, bits, lo, hi) ==
    IF lo > hi THEN [samples |-> <<>>, level |-> l]
    ELSE IF lo = hi THEN encode_bit(l, bits[lo])
    ELSE LET mid == (lo + hi) \div 2
             a == encode_range(l, bits, lo, mid)
             b == encode_range(a.level, bits, mid + 1, hi)
         IN  [samples |-> a.samples \o b.samples, level |-> b.level]

\* encode_bits / encode_frame: the samples and the level the encoder is left at
encode_bits(l, bits) == encode_range(l, bits, 1, Len(bits))

----------------------------------------------------------------------------
(* SVM/bmc_decoder.py                                                      *)

TOLERANCE_FACTOR == 30
ZERO_THRESHOLD == 200
None == -1

Abs(x) == IF x < 0 THEN -x ELSE x
Floor(num, den) == num \div den
Ceil(num, den) == -((-num) \div den)

\* the HALF upper bound computed with the default tolerance whatever t is
half_hi_default(sr, baud, t) == Ceil(sr * (100 + TOLERANCE_FACTOR), 2 * baud * 100)

\* BMCDecoder.__init__: nom_full = sr/baud, nom_half = nom_full/2,
\* window = [floor(nom*(1-tol)), ceil(nom*(1+tol))], tol = t/100
full_lo(sr, baud, t) == Floor(sr * (100 - t), baud * 100)
full_hi(sr, baud, t) == Ceil(sr * (100 + t), baud * 100)
half_lo(sr, baud, t) == Floor(sr * (100 - t), 2 * baud * 100)
half_hi(sr, baud, t) == Ceil(sr * (100 + t), 2 * baud * 100)

is_full(r, sr, baud, t) == full_lo(sr, baud, t) <= r /\ r <= full_hi(sr, baud, t)
is_half(r, sr, baud, t) == half_lo(sr, baud, t) <= r /\ r <= half_hi(sr, baud, t)

\* inner while of _run_lengths: first index (1-based) past the run starting at i
RECURSIVE run_end(_, _, _, _)
run_end(samples, i, positive, thresh) ==
    IF i <= Len(samples) /\ ((samples[i] > 0) = positive) /\ Abs(samples[i]) >= thresh
    THEN run_end(samples, i + 1, positive, thresh)
    ELSE i

\* that iteration skipping a sample of exactly the threshold amplitude as well
scan_step_above(samples, i, thresh) ==
    IF Abs(samples[i]) <= thresh THEN [runs |-> <<>>, next |-> i + 1]
    ELSE LET e == run_end(samples, i, samples[i] > 0, thresh)
         IN  [runs |-> << <<i - 1, e - i>> >>, next |-> e]

\* one iteration of the outer while of _run_lengths at 1-based index i:
\* the run found there, if any, as <<start (0-based), length>>, and the next i
scan_step(samples, i, thresh) ==
    IF Abs(samples[i]) < thresh THEN [runs |-> <<>>, next |-> i + 1]
    ELSE LET e == run_end(samples, i, samples[i] > 0, thresh)
         IN  [runs |-> << <<i - 1, e - i>> >>, next |-> e]

\* the iterations of that while loop which start at an index in i..stop-1,
\* evaluated by halves of the index range (same iterations, same order)
RECURSIVE scan_range(_, _, _, _)
scan_range(samples, i, stop, thresh) ==
    IF i >= stop THEN [runs |-> <<>>, next |-> i]
    ELSE IF stop - i = 1 THEN scan_step(samples, i, thresh)
    ELSE LET mid == (i + stop) \div 2
             a == scan_range(samples, i, mid, thresh)
             b == scan_range(samples, a.next, stop, thresh)
         IN  [runs |-> a.runs \o b.runs, next |-> b.next]

run_lengths(samples, thresh) == scan_range(samples, 1, Len(samples) + 1, thresh).runs

DecodedBit(b, pos, ra, rb, ok) ==
    [bit |-> b, sample_pos |-> pos, run_a |-> ra, run_b |-> rb, in_tolerance |-> ok]
BitError(pos, r, why) == [sample_pos |-> pos, run_length |-> r, reason |-> why]

\* an iteration that tests the HALF window before the FULL window
consume_step_half_first(runs, idx, sr, baud, t) ==
    LET pos == runs[idx][1]
        r   == runs[idx][2]
        one(b, ok) == [bits |-> <<DecodedBit(b, pos, r, None, ok)>>,
                       errors |-> <<>>, next |-> idx + 1]
        two(ok) == [bits |-> <<DecodedBit(1, pos, r, runs[idx + 1][2], ok)>>,
                    errors |-> <<>>, next |-> idx + 2]
        err(why) == [bits |-> <<>>, errors |-> <<BitError(pos, r, why)>>,
                     next |-> idx + 1]
    IN  IF is_half(r, sr, baud, t)
        THEN IF idx + 1 <= Len(runs)
             THEN LET r2 == runs[idx + 1][2]
                  IN  IF is_half(r2, sr, baud, t) THEN two(TRUE)
                      ELSE IF is_full(r + r2, sr, baud, t) THEN two(FALSE)
                      ELSE err("half-run followed by non-half")
             ELSE one(1, FALSE)
        ELSE IF is_full(r, sr, baud, t) THEN one(0, TRUE)
        ELSE err("run outside full and half windows")

\* an iteration that reports a HALF run with no run after it as an error
consume_step_trailing_error(runs, idx, sr, baud, t) ==
    LET pos == runs[idx][1]
        r   == runs[idx][2]
        one(b, ok) == [bits |-> <<DecodedBit(b, pos, r, None, ok)>>,
                       errors |-> <<>>, next |-> idx + 1]
        two(ok) == [bits |-> <<DecodedBit(1, pos, r, runs[idx + 1][2], ok)>>,
                    errors |-> <<>>, next |-> idx + 2]
        err(why) == [bits |-> <<>>, errors |-> <<BitError(pos, r, why)>>,
                     next |-> idx + 1]
    IN  IF is_full(r, sr, baud, t) THEN one(0, TRUE)
        ELSE IF is_half(r, sr, baud, t)
        THEN IF idx + 1 <= Len(runs)
             THEN LET r2 == runs[idx + 1][2]
                  IN  IF is_half(r2, sr, baud, t) THEN two(TRUE)
                      ELSE IF is_full(r + r2, sr, baud, t) THEN two(FALSE)
                      ELSE err("half-run followed by non-half")
             ELSE err("trailing half run")
        ELSE err("run outside full and half windows")

\* one iteration of the while loop of _consume_runs at 1-based run index idx
consume_step(runs, idx, sr, baud, t) ==
    LET pos == runs[idx][1]
        r   == runs[idx][2]
        one(b, ok) == [bits |-> <<DecodedBit(b, pos, r, None, ok)>>,
                       errors |-> <<>>, next |-> idx + 1]
        two(ok) == [bits |-> <<DecodedBit(1, pos, r, runs[idx + 1][2], ok)>>,
                    errors |-> <<>>, next |-> idx + 2]
        err(why) == [bits |-> <<>>, errors |-> <<BitError(pos, r, why)>>,
                     next |-> idx + 1]
    IN  IF is_full(r, sr, baud, t) THEN one(0, TRUE)
        ELSE IF is_half(r, sr, baud, t)
        THEN IF idx + 1 <= Len(runs)
             THEN LET r2 == runs[idx + 1][2]
                  IN  IF is_half(r2, sr, baud, t) THEN two(TRUE)
                      ELSE IF is_full(r + r2, sr, baud, t) THEN two(FALSE)
                      ELSE err("half-run followed by non-half")
             ELSE one(1, FALSE)
        ELSE err("run outside full and half windows")

\* the iterations of that while loop which start at a run index in idx..stop-1,
\* evaluated by halves of the index range (same iterations, same order)
RECURSIVE consume_range(_, _, _, _, _, _)
consume_range(runs, idx, stop, sr, baud, t) ==
    IF idx >= stop THEN [bits |-> <<>>, errors |-> <<>>, next |-> idx]
    ELSE IF stop - idx = 1 THEN consume_step(runs, idx, sr, baud, t)
    ELSE LET mid == (idx + stop) \div 2
             a == consume_range(runs, idx, mid, sr, baud, t)
             b == consume_range(runs, a.next, stop, sr, baud, t)
         IN  [bits |-> a.bits \o b.bits, errors |-> a.errors \o b.errors,
              next |-> b.next]

\* _consume_runs that gives up at the first error: the bits before it and
\* that one error
consume_runs_abort(runs, sr, baud, t) ==
    LET c == consume_range(runs, 1, Len(runs) + 1, sr, baud, t)
    IN  IF c.errors = <<>> THEN [bits |-> c.bits, errors |-> <<>>]
        ELSE [bits |-> SelectSeq(c.bits,
                                 LAMBDA b : b.sample_pos < c.errors[1].sample_pos),
              errors |-> <<c.errors[1]>>]

\* _consume_runs: the DecodedBit list and the BitError list
consume_runs(runs, sr, baud, t) ==
    LET c == consume_range(runs, 1, Len(runs) + 1, sr, baud, t)
    IN  [bits |-> c.bits, errors |-> c.errors]

\* BMCDecoder(sr, baud, t/100, thresh).decode(samples)
decode(samples, sr, baud, t, thresh) ==
    consume_runs(run_lengths(samples, thresh), sr, baud, t)

BitValues(dbits) == [i \in 1..Len(dbits) |-> dbits[i].bit]

\* visualizer_bridge._decode_bmc(samples, sample_rate): the same windows
\* (with _TOLERANCE = 0.30, _BAUD_RATE, _ZERO_THRESH) and the same while
\* loop, which appends the bit value where _consume_runs appends a
\* DecodedBit and counts an error where it appends a BitError
bridge_decode_bmc(samples, sr) ==
    LET c == consume_runs(run_lengths(samples, ZERO_THRESHOLD), sr, BAUD_RATE,
                          TOLERANCE_FACTOR)
    IN  [bits |-> BitValues(c.bits), errors |-> Len(c.errors)]

----------------------------------------------------------------------------
(* SGM/frame_builder.py and the inlined copy in SGM/export_bridge.py       *)

\* a channel map that puts one channel of each track on a blank position
channel_map_on_blank(trk) ==
    IF trk = "TD" THEN [TD_CHANNELS EXCEPT !["rolfe_mouth"] = 56]
    ELSE [BD_CHANNELS EXCEPT !["spot_guitar"] = 45]

channel_map(trk) == IF trk = "TD" THEN TD_CHANNELS ELSE BD_CHANNELS
blank_bits(trk) == IF trk = "TD" THEN TD_BLANK_BITS ELSE BD_BLANK_BITS
frame_bits(trk) == IF trk = "TD" THEN TD_FRAME_BITS ELSE BD_FRAME_BITS
frame_samps(trk) == frame_bits(trk) * SAMPLES_PER_BIT

Min(a, b) == IF a < b THEN a ELSE b

\* set_channel that takes the 1-based bit number for the 0-based list index
set_channel_off_by_one(fr, trk, channel, active) ==
    IF channel \notin DOMAIN channel_map(trk)
    THEN [frame |-> fr, raised |-> TRUE]
    ELSE LET bit_number == channel_map(trk)[channel]
         IN  IF bit_number \in blank_bits(trk) \/ bit_number + 1 > Len(fr)
             THEN [frame |-> fr, raised |-> TRUE]
             ELSE [frame |-> [fr EXCEPT ![bit_number + 1] = IF active THEN 1 ELSE 0],
                   raised |-> FALSE]

\* set_channel that ignores a name it cannot place instead of raising
set_channel_silent(fr, trk, channel, active) ==
    IF channel \notin DOMAIN channel_map(trk)
    THEN [frame |-> fr, raised |-> FALSE]
    ELSE LET bit_number == channel_map(trk)[channel]
         IN  IF bit_number \in blank_bits(trk)
             THEN [frame |-> fr, raised |-> FALSE]
             ELSE [frame |-> [fr EXCEPT ![bit_number] = IF active THEN 1 ELSE 0],
                   raised |-> FALSE]

\* set_channel on frame list fr (bit number b is element b of the sequence):
\* the frame afterwards and whether ValueError was raised
set_channel(fr, trk, channel, active) ==
    IF channel \notin DOMAIN channel_map(trk)
    THEN [frame |-> fr, raised |-> TRUE]
    ELSE LET bit_number == channel_map(trk)[channel]
         IN  IF bit_number \in blank_bits(trk)
             THEN [frame |-> fr, raised |-> TRUE]
             ELSE [frame |-> [fr EXCEPT ![bit_number] = IF active THEN 1 ELSE 0],
                   raised |-> FALSE]

\* clear_all / __init__: [0] * frame_bits
clear_all(trk) == Rep(0, frame_bits(trk))

\* int(seconds * SAMPLE_RATE), the time given in microseconds:
\* us * 44100 / 10^6 with the fraction reduced by 100 (32-bit integers)
time_to_sample(us) == (us * (SAMPLE_RATE \div 100)) \div 10000

\* struct.pack("<h"): big-endian variant
to_raw_bytes_be(samples) ==
    [i \in 1..(2 * Len(samples)) |->
        LET x == samples[(i + 1) \div 2]
            u == IF x < 0 THEN x + 65536 ELSE x
        IN  IF i % 2 = 1 THEN u \div 256 ELSE u % 256]

\* BMCEncoder.to_raw_bytes: struct.pack("<Nh"), two bytes per sample, low byte first
to_raw_bytes(samples) ==
    [i \in 1..(2 * Len(samples)) |->
        LET x == samples[(i + 1) \div 2]
            u == IF x < 0 THEN x + 65536 ELSE x
        IN  IF i % 2 = 1 THEN u % 256 ELSE u \div 256]

\* struct.unpack("<Nh", bytes)
unpack_samples(bytes) ==
    [i \in 1..(Len(bytes) \div 2) |->
        LET u == bytes[2 * i - 1] + 256 * bytes[2 * i]
        IN  IF u >= 32768 THEN u - 65536 ELSE u]

\* bytearray slice assignment out[bs:be] = data (0-based, end exclusive):
\* the slice bounds are clipped to the length, so a write past the end grows it
slice_assign(out, bs, be, data) ==
    LET lo == Min(bs, Len(out))
        hi == IF Min(be, Len(out)) < lo THEN lo ELSE Min(be, Len(out))
    IN  SubSeq(out, 1, lo) \o data \o SubSeq(out, hi + 1, Len(out))

\* _fill_frames / _fill: the while loop from sample pos to sample end
RECURSIVE fill_frames(_, _, _, _, _, _)
fill_frames(out, l, fr, fsamps, pos, end) ==
    IF pos >= end THEN [output |-> out, level |-> l]
    ELSE LET e == encode_bits(l, fr)
             frame_pcm_bytes == to_raw_bytes(e.samples)
             samples_to_write == Min(fsamps, end - pos)
             byte_start == pos * 2
             byte_end == byte_start + samples_to_write * 2
         IN  fill_frames(
                 slice_assign(out, byte_start, byte_end,
                              SubSeq(frame_pcm_bytes, 1, samples_to_write * 2)),
                 e.level, fr, fsamps, pos + samples_to_write, end)

\* sorted(events, key = int(time * SAMPLE_RATE)): stable insertion
RECURSIVE insert_event(_, _)
insert_event(sorted, ev) ==
    IF sorted = <<>> THEN <<ev>>
    ELSE IF time_to_sample(ev.time) < time_to_sample(sorted[Len(sorted)].time)
         THEN Append(insert_event(SubSeq(sorted, 1, Len(sorted) - 1), ev), sorted[Len(sorted)])
         ELSE Append(sorted, ev)

\* the events taken as the caller listed them
events_as_listed(evs) == evs

RECURSIVE sorted_events(_)
sorted_events(evs) ==
    IF evs = <<>> THEN <<>>
    ELSE insert_event(sorted_events(SubSeq(evs, 1, Len(evs) - 1)), evs[Len(evs)])

\* FrameBuilder.build, the loop over the sorted events.
\* st = [frame, level, output, cursor, raised, encoded]
RECURSIVE build_events(_, _, _)
build_events(trk, evs, st) ==
    IF evs = <<>> \/ st.raised THEN st
    ELSE LET ev == Head(evs)
             event_sample == time_to_sample(ev.time)
             f == fill_frames(st.output, st.level, st.frame, frame_samps(trk),
                              st.cursor, event_sample)
             sc == set_channel(st.frame, trk, ev.channel, ev.active)
         IN  build_events(trk, Tail(evs),
                 [frame |-> sc.frame, level |-> f.level, output |-> f.output,
                  cursor |-> event_sample, raised |-> sc.raised,
                  encoded |-> IF st.cursor < event_sample
                              THEN st.encoded \cup {st.frame} ELSE st.encoded])

\* _FrameBuilder.build (export bridge), the loop over the sorted events:
\* the event's sample is snapped down to a frame boundary first
RECURSIVE bridge_build_events(_, _, _)
bridge_build_events(trk, evs, st) ==
    IF evs = <<>> \/ st.raised THEN st
    ELSE LET ev == Head(evs)
             fs == frame_samps(trk)
             ev_sample == (time_to_sample(ev.time) \div fs) * fs
             sc == set_channel(st.frame, trk, ev.channel, ev.active)
         IN  IF ev_sample <= st.cursor
             THEN bridge_build_events(trk, Tail(evs),
                      [st EXCEPT !.frame = sc.frame, !.raised = sc.raised])
             ELSE LET f == fill_frames(st.output, st.level, st.frame, fs,
                                       st.cursor, ev_sample)
                  IN  bridge_build_events(trk, Tail(evs),
                          [frame |-> sc.frame, level |-> f.level, output |-> f.output,
                           cursor |-> ev_sample, raised |-> sc.raised,
                           encoded |-> st.encoded \cup {st.frame}])

\* total_samples: int(duration * SAMPLE_RATE) rounded up to a whole frame
total_samples(trk, dur) ==
    LET t == time_to_sample(dur)
        remainder == t % frame_samps(trk)
    IN  IF remainder # 0 THEN t + (frame_samps(trk) - remainder) ELSE t

\* build without the clear_all() at its head: the frame state fr the builder
\* has is the state the first frames are encoded from
build_on_kept_frame(fr, trk, imp, evs, dur) ==
    LET total == total_samples(trk, dur)
        st0 == [frame |-> fr, level |-> BMC_LOW,
                output |-> Rep(0, total * 2), cursor |-> 0, raised |-> FALSE,
                encoded |-> {}]
        st1 == IF imp = "FrameBuilder"
               THEN build_events(trk, sorted_events(evs), st0)
               ELSE bridge_build_events(trk, sorted_events(evs), st0)
        f == fill_frames(st1.output, st1.level, st1.frame, frame_samps(trk),
                         st1.cursor, total)
    IN  IF st1.raised
        THEN [frame |-> st1.frame, raised |-> TRUE, output |-> <<>>, encoded |-> st1.encoded]
        ELSE [frame |-> st1.frame, raised |-> FALSE, output |-> f.output,
              encoded |-> IF st1.cursor < total
                          THEN st1.encoded \cup {st1.frame} ELSE st1.encoded]

\* build(events, duration_seconds) of class imp on a builder whose frame
\* state is fr: the frame state it leaves, whether it raised, and the bytes
\* it returns.  self.clear_all() replaces fr by the all-zero frame and
\* enc = BMCEncoder() is a new encoder at level LOW
build_on(fr, trk, imp, evs, dur) ==
    LET total == total_samples(trk, dur)
        st0 == [frame |-> clear_all(trk), level |-> BMC_LOW,
                output |-> Rep(0, total * 2), cursor |-> 0, raised |-> FALSE,
                encoded |-> {}]
        st1 == IF imp = "FrameBuilder"
               THEN build_events(trk, sorted_events(evs), st0)
               ELSE bridge_build_events(trk, sorted_events(evs), st0)
        f == fill_frames(st1.output, st1.level, st1.frame, frame_samps(trk),
                         st1.cursor, total)
    IN  IF st1.raised
        THEN [frame |-> st1.frame, raised |-> TRUE, output |-> <<>>, encoded |-> st1.encoded]
        ELSE [frame |-> st1.frame, raised |-> FALSE, output |-> f.output,
              encoded |-> IF st1.cursor < total
                          THEN st1.encoded \cup {st1.frame} ELSE st1.encoded]

\* build on a new builder
build(trk, imp, evs, dur) == build_on(clear_all(trk), trk, imp, evs, dur)

----------------------------------------------------------------------------
(* SVM/frame_sync.py                                                       *)

LOCK_THRESHOLD == 3
MAX_SEARCH_BITS == 500

bit_to_name(trk) == IF trk = "TD" THEN TD_BIT_TO_NAME ELSE BD_BIT_TO_NAME

\* all(frame_slice[bi] == 0 for bi in blank_indices), the slice starting at
\* 0-based bit offset start: 0-based index b-1 of the slice is element start+b
blank_check(bs, trk, start) == \A b \in blank_bits(trk) : bs[start + b] = 0

\* the inner for loop of the lock search from iteration k on: the number of
\* consecutive frames from candidate that pass the blank check
RECURSIVE lock_score(_, _, _, _)
lock_score(bs, trk, candidate, k) ==
    IF k >= LOCK_THRESHOLD THEN 0
    ELSE LET start == candidate + k * frame_bits(trk)
             end == start + frame_bits(trk)
         IN  IF end > Len(bs) THEN 0
             ELSE IF blank_check(bs, trk, start)
                  THEN 1 + lock_score(bs, trk, candidate, k + 1)
                  ELSE 0

\* that iteration keeping the latest candidate among equals (>= for >)
lock_step_latest(bs, trk, candidate, st) ==
    LET score == lock_score(bs, trk, candidate, 0)
    IN  IF score >= st.score
        THEN [offset |-> candidate, score |-> score, done |-> score >= LOCK_THRESHOLD]
        ELSE st

\* one iteration of the outer for loop; st = [offset, score, done]
lock_step(bs, trk, candidate, st) ==
    LET score == lock_score(bs, trk, candidate, 0)
    IN  IF score > st.score
        THEN [offset |-> candidate, score |-> score, done |-> score >= LOCK_THRESHOLD]
        ELSE st

\* the iterations of the outer for loop for candidates lo..hi-1, evaluated by
\* halves of the range (same iterations, same order, stopping at the break)
RECURSIVE lock_search(_, _, _, _, _)
lock_search(bs, trk, lo, hi, st) ==
    IF lo >= hi \/ st.done THEN st
    ELSE IF hi - lo = 1 THEN lock_step(bs, trk, lo, st)
    ELSE LET mid == (lo + hi) \div 2
         IN  lock_search(bs, trk, mid, hi, lock_search(bs, trk, lo, mid, st))

\* the list comprehension over the frame slice for 1-based positions lo..hi,
\* evaluated by halves: names of the mapped positions that hold 1, ascending
RECURSIVE active_names(_, _, _, _)
active_names(frame_slice, trk, lo, hi) ==
    IF lo > hi THEN <<>>
    ELSE IF lo = hi
         THEN IF frame_slice[lo] = 1 /\ lo \in DOMAIN bit_to_name(trk)
              THEN <<bit_to_name(trk)[lo]>> ELSE <<>>
    ELSE LET mid == (lo + hi) \div 2
         IN  active_names(frame_slice, trk, lo, mid) \o
             active_names(frame_slice, trk, mid + 1, hi)

DecodedFrame(index, pos, frame_slice, active, ok) ==
    [frame_index |-> index, bit_offset |-> pos, bits |-> frame_slice,
     active_channels |-> active, blank_ok |-> ok]

\* that loop advancing by one bit less than a frame: windows that overlap
RECURSIVE extract_frames_overlapping(_, _, _, _)
extract_frames_overlapping(bs, trk, pos, n) ==
    IF pos + frame_bits(trk) > Len(bs) THEN <<>>
    ELSE LET frame_slice == SubSeq(bs, pos + 1, pos + frame_bits(trk))
         IN  <<DecodedFrame(n, pos, frame_slice,
                            active_names(frame_slice, trk, 1, Len(frame_slice)),
                            blank_check(bs, trk, pos))>>
             \o extract_frames_overlapping(bs, trk, pos + frame_bits(trk) - 1, n + 1)

\* the while loop of phase 2 from 0-based bit position pos on, n frames done
RECURSIVE extract_frames(_, _, _, _)
extract_frames(bs, trk, pos, n) ==
    IF pos + frame_bits(trk) > Len(bs) THEN <<>>
    ELSE LET frame_slice == SubSeq(bs, pos + 1, pos + frame_bits(trk))
         IN  <<DecodedFrame(n, pos, frame_slice,
                            active_names(frame_slice, trk, 1, Len(frame_slice)),
                            blank_check(bs, trk, pos))>>
             \o extract_frames(bs, trk, pos + frame_bits(trk), n + 1)

\* sync_frames(bits, track, max_search_bits)
sync_frames(bs, trk, max_search_bits) ==
    LET total == Len(bs)
        search_end == Min(max_search_bits, total - frame_bits(trk) * LOCK_THRESHOLD)
        best == lock_search(bs, trk, 0, search_end,
                            [offset |-> 0, score |-> 0, done |-> FALSE])
    IN  [locked |-> best.score >= LOCK_THRESHOLD,
         lock_offset |-> best.offset,
         score |-> best.score,
         frames |-> extract_frames(bs, trk, best.offset, 0),
         orphan_bits |-> best.offset]

----------------------------------------------------------------------------
(* SVM/hardware_sim.py and SViz/visualizer_bridge.py: the verdict          *)

\* MAX_ERROR_RATE = 0.02 and MIN_BLANK_BIT_RATE = 0.98, in hundredths
MAX_ERROR_RATE_PCT == 2
MIN_BLANK_BIT_RATE_PCT == 98

Max(a, b) == IF a > b THEN a ELSE b

\* what one track's channel gave: m = [n_bits, n_errors, score, n_frames,
\* n_blank_ok], the counts the rates are computed from

\* error_rate >= MAX_ERROR_RATE
error_rate_reaches(m) ==
    m.n_errors * 100 >= MAX_ERROR_RATE_PCT * Max(m.n_bits + m.n_errors, 1)

\* error_rate = n_errors / max(n_bits + n_errors, 1); error_rate > MAX_ERROR_RATE
error_rate_exceeds(m) ==
    m.n_errors * 100 > MAX_ERROR_RATE_PCT * Max(m.n_bits + m.n_errors, 1)

\* sync.locked: score >= LOCK_THRESHOLD
track_locked(m) == m.score >= LOCK_THRESHOLD

\* blank_ok_rate = blank_ok_count / max(len(frames), 1);
\* blank_ok_rate < MIN_BLANK_BIT_RATE
blank_rate_below(m) ==
    m.n_blank_ok * 100 < MIN_BLANK_BIT_RATE_PCT * Max(m.n_frames, 1)

\* a reason string: "<label>: <what> ..."
Reason(label, what) == [track |-> label, what |-> what]

\* the three threshold checks of one track, in the order of the code
process_track(st, label, m) ==
    LET r1 == IF error_rate_exceeds(m)
              THEN <<Reason(label, "error rate exceeds limit")>> ELSE <<>>
        r2 == IF ~track_locked(m)
              THEN <<Reason(label, "failed to lock on frame boundaries")>> ELSE <<>>
        r3 == IF blank_rate_below(m)
              THEN <<Reason(label, "blank-bit integrity below limit")>> ELSE <<>>
    IN  [done |-> st.done,
         pass |-> st.pass /\ r1 \o r2 \o r3 = <<>>,
         reasons |-> st.reasons \o r1 \o r2 \o r3,
         evaluated |-> Append(st.evaluated, label)]

RECURSIVE process_tracks(_, _, _)
process_tracks(st, tracks_to_run, ms) ==
    IF tracks_to_run = <<>> THEN st
    ELSE process_tracks(process_track(st, Head(tracks_to_run), ms[Head(tracks_to_run)]),
                        Tail(tracks_to_run), ms)

\* verify_and_decode: TD then BD
verify_and_decode(ms) ==
    [process_track(process_track([done |-> FALSE, pass |-> TRUE, reasons |-> <<>>,
                                  evaluated |-> <<>>], "TD", ms["TD"]),
                   "BD", ms["BD"])
     EXCEPT !.done = TRUE]

\* run_sim on a readable file of 2 or 4 channels: the loop over tracks_to_run
run_sim(ms, trk) ==
    [process_tracks([done |-> FALSE, pass |-> TRUE, reasons |-> <<>>,
                     evaluated |-> <<>>],
                    IF trk = "BOTH" THEN <<"TD", "BD">> ELSE <<trk>>, ms)
     EXCEPT !.done = TRUE]

----------------------------------------------------------------------------
(* SGM/rshw_builder.py: the NRBF serializer.  Bytes are 0..255; a Python    *)
(* string literal is the sequence of its code points.                       *)

\* "Assembly-CSharp, Version=0.0.0.0, Culture=neutral, PublicKeyToken=null"
LIBRARY_NAME ==
    << 65, 115, 115, 101, 109, 98, 108, 121, 45, 67, 83, 104, 97, 114, 112,
       44, 32, 86, 101, 114, 115, 105, 111, 110, 61, 48, 46, 48, 46, 48, 46,
       48, 44, 32, 67, 117, 108, 116, 117, 114, 101, 61, 110, 101, 117, 116,
       114, 97, 108, 44, 32, 80, 117, 98, 108, 105, 99, 75, 101, 121, 84,
       111, 107, 101, 110, 61, 110, 117, 108, 108 >>

\* "rshwFormat"
CLASS_NAME ==
    << 114, 115, 104, 119, 70, 111, 114, 109, 97, 116 >>

\* "<audioData>k__BackingField"
AUDIO_MEMBER ==
    << 60, 97, 117, 100, 105, 111, 68, 97, 116, 97, 62, 107, 95, 95, 66, 97,
       99, 107, 105, 110, 103, 70, 105, 101, 108, 100 >>

\* "<signalData>k__BackingField"
SIGNAL_MEMBER ==
    << 60, 115, 105, 103, 110, 97, 108, 68, 97, 116, 97, 62, 107, 95, 95, 66,
       97, 99, 107, 105, 110, 103, 70, 105, 101, 108, 100 >>

\* "<videoData>k__BackingField"
VIDEO_MEMBER ==
    << 60, 118, 105, 100, 101, 111, 68, 97, 116, 97, 62, 107, 95, 95, 66, 97,
       99, 107, 105, 110, 103, 70, 105, 101, 108, 100 >>

\* str.encode('utf-8') of the code points lo..hi of cs, each below 2048
\* (evaluated by halves of the range)
RECURSIVE utf8_range(_, _, _)
utf8_range(cs, lo, hi) ==
    IF lo > hi THEN <<>>
    ELSE IF lo = hi
         THEN IF cs[lo] < 128 THEN <<cs[lo]>>
              ELSE <<192 + (cs[lo] \div 64), 128 + (cs[lo] % 64)>>
    ELSE LET mid == (lo + hi) \div 2
         IN  utf8_range(cs, lo, mid) \o utf8_range(cs, mid + 1, hi)

\* str.encode('utf-8') for code points below 2048
utf8(cs) == utf8_range(cs, 1, Len(cs))

\* a length prefix whose bytes lack the continuation flag
RECURSIVE lps_header_unflagged(_)
lps_header_unflagged(length) ==
    IF length < 128 THEN <<length>>
    ELSE <<length % 128>> \o lps_header_unflagged(length \div 128)

\* the while loop of _lps: 7 bits of the length per byte, low bits first
RECURSIVE lps_header(_)
lps_header(length) ==
    IF length < 128 THEN <<length>>
    ELSE <<(length % 128) + 128>> \o lps_header(length \div 128)

\* _lps(s): LengthPrefixedString
lps(s) == lps_header(Len(utf8(s))) \o utf8(s)

\* the four bytes of a non-negative value below 2^31, low byte first
le_bytes(v) == <<v % 256, (v \div 256) % 256, (v \div 65536) % 256, v \div 16777216>>

\* struct.pack('<i', v) with the bytes in big-endian order
i32_be(v) ==
    LET b == IF v >= 0 THEN le_bytes(v)
             ELSE [k \in 1..4 |-> 255 - le_bytes(-(v + 1))[k]]
    IN  <<b[4], b[3], b[2], b[1]>>

\* _i32(v) = struct.pack('<i', v): two's complement, little-endian
i32(v) ==
    IF v >= 0 THEN le_bytes(v)
    ELSE [k \in 1..4 |-> 255 - le_bytes(-(v + 1))[k]]

\* the values packed as 16-bit integers (array('h')), two bytes each
RECURSIVE int16_array_bytes(_)
int16_array_bytes(vs) ==
    IF vs = <<>> THEN <<>>
    ELSE <<Head(vs) % 256, (Head(vs) \div 256) % 256>> \o int16_array_bytes(Tail(vs))

\* array('i', signal_data).tobytes()
RECURSIVE int32_array_bytes(_)
int32_array_bytes(vs) ==
    IF vs = <<>> THEN <<>> ELSE i32(Head(vs)) \o int32_array_bytes(Tail(vs))

\* _serialize_rshw_format(audio_data, signal_data)
serialize_rshw_format(audio, signal) ==
    LET lib_id == 2
        audio_id == 3
        signal_id == 4
    IN  <<0>> \o i32(1) \o i32(-1) \o i32(1) \o i32(0)
        \o <<12>> \o i32(lib_id) \o lps(LIBRARY_NAME)
        \o <<5>> \o i32(1) \o lps(CLASS_NAME) \o i32(3)
        \o lps(AUDIO_MEMBER) \o lps(SIGNAL_MEMBER) \o lps(VIDEO_MEMBER)
        \o <<7, 7, 7>> \o <<2, 8, 2>> \o i32(lib_id)
        \o <<9>> \o i32(audio_id) \o <<9>> \o i32(signal_id) \o <<10>>
        \o <<15>> \o i32(audio_id) \o i32(Len(audio)) \o <<2>> \o audio
        \o <<15>> \o i32(signal_id) \o i32(Len(signal)) \o <<8>>
        \o int32_array_bytes(signal)
        \o <<11>>

----------------------------------------------------------------------------
(* Python float arithmetic (IEEE-754 binary64, round to nearest even) on   *)
(* the non-negative values the signal builder computes.  A 60-bit natural  *)
(* is [hi, lo] = hi * 2^30 + lo; a float is [m, e] = m * 2^e with          *)
(* 2^52 <= m < 2^53, or m = 0.                                             *)

B30 == 2^30
Big(hi, lo) == [hi |-> hi, lo |-> lo]
BigZero == Big(0, 0)
BigGeq(a, b) == a.hi > b.hi \/ (a.hi = b.hi /\ a.lo >= b.lo)
BigDbl(a) == Big(2 * a.hi + ((2 * a.lo) \div B30), (2 * a.lo) % B30)
BigHalf(a) == Big(a.hi \div 2, (a.lo \div 2) + (a.hi % 2) * (B30 \div 2))
BigAdd(a, b) == Big(a.hi + b.hi + ((a.lo + b.lo) \div B30), (a.lo + b.lo) % B30)
BigSub(a, b) ==
    IF a.lo >= b.lo THEN Big(a.hi - b.hi, a.lo - b.lo)
    ELSE Big(a.hi - b.hi - 1, (a.lo + B30) - b.lo)
BigOdd(a) == a.lo % 2 = 1
Below53(a) == a.hi < 2^23               \* a < 2^53

\* a * 2^k and a \div 2^k
BigShl(a, k) ==
    IF k >= 30 THEN Big(a.lo * 2^(k - 30), 0)
    ELSE Big(a.hi * 2^k + (a.lo \div 2^(30 - k)), (a.lo % 2^(30 - k)) * 2^k)
BigShr(a, k) ==
    IF k >= 60 THEN BigZero
    ELSE IF k >= 30 THEN Big(0, a.hi \div 2^(k - 30))
    ELSE Big(a.hi \div 2^k, (a.lo \div 2^k) + (a.hi % 2^k) * 2^(30 - k))

\* a * k for a natural k < 2^15 (a * k < 2^60): the low limb is multiplied
\* in two pieces of 15 bits
BigTimes(a, k) ==
    LET p0 == (a.lo % 2^15) * k
        p1 == (a.lo \div 2^15) * k
    IN  BigAdd(Big(a.hi * k, p0), BigShl(Big(0, p1), 15))

\* m * 2^e rounded to 53 bits: bits are shifted out until m < 2^53, up is
\* the last bit shifted out and rest whether any earlier one was set
RECURSIVE round_53(_, _, _, _)
round_53(m, e, up, rest) ==
    IF ~Below53(m) THEN round_53(BigHalf(m), e + 1, BigOdd(m), rest \/ up)
    ELSE IF up /\ (rest \/ BigOdd(m))
         THEN LET r == BigAdd(m, Big(0, 1))
              IN  IF Below53(r) THEN [m |-> r, e |-> e]
                  ELSE [m |-> BigHalf(r), e |-> e + 1]
         ELSE [m |-> m, e |-> e]

\* float(n) for an int 0 <= n < 2^30 (exact)
float_of(n) ==
    IF n = 0 THEN [m |-> BigZero, e |-> 0]
    ELSE LET len == CHOOSE k \in 1..30 : 2^(k - 1) <= n /\ n < 2^k
         IN  [m |-> BigShl(Big(0, n), 53 - len), e |-> len - 53]

\* one quotient bit of restoring division by d: the quotient q so far and
\* twice the remainder r
div_step(s, d) ==
    IF BigGeq(s.r, d)
    THEN [q |-> BigAdd(BigDbl(s.q), Big(0, 1)), r |-> BigDbl(BigSub(s.r, d))]
    ELSE [q |-> BigDbl(s.q), r |-> BigDbl(s.r)]

\* k quotient bits, the steps taken in order (evaluated by halves); once the
\* remainder is 0 the bits still to come are all 0
RECURSIVE div_steps(_, _, _)
div_steps(s, d, k) ==
    IF s.r = BigZero THEN [q |-> BigShl(s.q, k), r |-> BigZero]
    ELSE IF k = 1 THEN div_step(s, d)
    ELSE div_steps(div_steps(s, d, k \div 2), d, k - (k \div 2))

\* x / y for floats x >= 0, y > 0
float_div(x, y) ==
    IF x.m = BigZero THEN x
    ELSE LET lead == BigGeq(x.m, y.m)
             d == div_steps([q |-> BigZero, r |-> IF lead THEN x.m ELSE BigDbl(x.m)], y.m, 53)
             e == x.e - y.e - (IF lead THEN 52 ELSE 53)
             up == BigGeq(d.r, y.m)
             rest == d.r # y.m
         IN  IF up /\ (rest \/ BigOdd(d.q))
             THEN round_53(BigAdd(d.q, Big(0, 1)), e, FALSE, FALSE)
             ELSE [m |-> d.q, e |-> e]

\* x * k for a float x >= 0 and an int 0 <= k < 128
float_times(x, k) ==
    IF x.m = BigZero \/ k = 0 THEN [m |-> BigZero, e |-> 0]
    ELSE round_53(BigTimes(x.m, k), x.e, FALSE, FALSE)

\* int(x) for a float 0 <= x < 2^30
float_int(x) == IF x.m = BigZero THEN 0 ELSE BigShr(x.m, -x.e).lo

----------------------------------------------------------------------------
(* rshw_builder.py: the signal-code list                                   *)

RSHW_FPS == 60
MaxRshwFrames == 139

\* bits / baud_rate: seconds per hardware frame, a float
frame_seconds(bits, baud) == float_div(float_of(bits), float_of(baud))

\* int(audio_length_s * fps)
total_rshw_frames(audio_length_s, fps) == float_int(float_times(audio_length_s, fps))

\* int(t / frame_s) with t = rshw_frame_num / fps
frame_idx(rshw_frame_num, fps, frame_s) ==
    float_int(float_div(float_div(float_of(rshw_frame_num), float_of(fps)), frame_s))

\* td_idx and bd_idx of every output frame at the default fps, baud rate and
\* frame widths
td_idx == [n \in 0..MaxRshwFrames |->
              frame_idx(n, RSHW_FPS, frame_seconds(TD_FRAME_BITS, BAUD_RATE))]
bd_idx == [n \in 0..MaxRshwFrames |->
              frame_idx(n, RSHW_FPS, frame_seconds(BD_FRAME_BITS, BAUD_RATE))]

\* the inner for loop: bit_idx + first for every set bit, ascending
active_codes(hw_frame, first) ==
    LET on == SelectSeq([i \in 1..Len(hw_frame) |-> i], LAMBDA i : hw_frame[i] # 0)
    IN  [j \in 1..Len(on) |-> (on[j] - 1) + first]

\* the codes one track adds to an output frame
track_codes(frames, idx, first) ==
    IF idx < Len(frames) THEN active_codes(frames[idx + 1], first) ELSE <<>>

\* one iteration of the for loop over the output frames
rshw_frame(tdf, bdf, n) ==
    <<0>> \o track_codes(tdf, td_idx[n], 1) \o track_codes(bdf, bd_idx[n], 151)

\* the iterations lo..hi-1 of that loop, evaluated by halves
RECURSIVE rshw_frames(_, _, _, _)
rshw_frames(tdf, bdf, lo, hi) ==
    IF lo >= hi THEN <<>>
    ELSE IF hi - lo = 1 THEN rshw_frame(tdf, bdf, lo)
    ELSE LET mid == (lo + hi) \div 2
         IN  rshw_frames(tdf, bdf, lo, mid) \o rshw_frames(tdf, bdf, mid, hi)

\* _build_signal_data(td_frames, bd_frames, audio_length_s)
build_signal_data(tdf, bdf, audio_length_s) ==
    rshw_frames(tdf, bdf, 0, total_rshw_frames(audio_length_s, RSHW_FPS))

----------------------------------------------------------------------------
(* rshw_builder.py: WAV ingestion                                          *)

RIFF_TAG == <<82, 73, 70, 70>>          \* b'RIFF'
WAVE_TAG == <<87, 65, 86, 69>>          \* b'WAVE'
FMT_TAG  == <<102, 109, 116, 32>>       \* b'fmt '
DATA_TAG == <<100, 97, 116, 97>>        \* b'data'

\* f.read(n) with the file position at p (0-based): fewer bytes at the end
read(bs, p, n) == SubSeq(bs, p + 1, Min(p + n, Len(bs)))

\* struct.unpack('<H') and struct.unpack('<I') of a full read
unpack_u16(b) == b[1] + 256 * b[2]
unpack_u32(b) == b[1] + 256 * b[2] + 65536 * b[3] + 16777216 * b[4]

\* the chunk loop of _parse_wav from file position pos on; st holds
\* num_channels, sample_rate, bits_per_sample, pcm_data (found says whether it
\* is set) and error, the exception a short read raised
RECURSIVE chunk_loop(_, _, _)
chunk_loop(bs, pos, st) ==
    IF ~(pos < Len(bs) - 8) THEN st
    ELSE LET chunk_id == read(bs, pos, 4)
             chunk_size == unpack_u32(read(bs, pos + 4, 4))
             chunk_start == pos + 8
         IN  IF chunk_id = FMT_TAG
             THEN IF Len(bs) < chunk_start + 16
                  THEN [st EXCEPT !.error = "struct.error"]
                  ELSE chunk_loop(bs, chunk_start + chunk_size,
                           [st EXCEPT
                               !.num_channels = unpack_u16(read(bs, chunk_start + 2, 2)),
                               !.sample_rate = unpack_u32(read(bs, chunk_start + 4, 4)),
                               !.bits_per_sample = unpack_u16(read(bs, chunk_start + 14, 2))])
             ELSE IF chunk_id = DATA_TAG
             THEN [st EXCEPT !.found = TRUE, !.pcm_data = read(bs, chunk_start, chunk_size)]
             ELSE chunk_loop(bs, chunk_start + chunk_size, st)

\* array('h').frombytes(pcm_data[:total_samples * 2])
samples_16(pcm_data, n_samples) == unpack_samples(SubSeq(pcm_data, 1, 2 * n_samples))

\* 8-bit: [(b - 128) * 256 for b in pcm_data]
samples_8(pcm_data) == [i \in 1..Len(pcm_data) |-> (pcm_data[i] - 128) * 256]

\* 24-bit: the signed value of each 3 bytes, >> 8
samples_24(pcm_data, n_samples) ==
    [i \in 1..n_samples |->
        LET v == pcm_data[3 * i - 2] + 256 * pcm_data[3 * i - 1] + 65536 * pcm_data[3 * i]
            s == IF v >= 8388608 THEN v - 16777216 ELSE v
        IN  IF s >= 0 THEN s \div 256 ELSE -(((-s) + 255) \div 256)]

\* 32-bit float: max(-32768, min(32767, int(s * 32767))) of the float32 in
\* each 4 bytes; int() raises on an infinity or a NaN
float32_sample(b) ==
    LET negative == b[4] >= 128
        exponent == (b[4] % 128) * 2 + (b[3] \div 128)
        fraction == (b[3] % 128) * 65536 + b[2] * 256 + b[1]
        product == BigTimes(Big(0, 8388608 + fraction), 32767)
        whole == IF exponent >= 150 THEN Big(1, 0) ELSE BigShr(product, 150 - exponent)
        size == IF whole.hi > 0 THEN 32768 ELSE Min(whole.lo, 32768)
    IN  IF exponent = 255
        THEN [raised |-> IF fraction = 0 THEN "OverflowError" ELSE "ValueError", value |-> 0]
        ELSE IF exponent = 0 THEN [raised |-> "", value |-> 0]
        ELSE [raised |-> "", value |-> IF negative THEN -size ELSE Min(size, 32767)]

samples_32(pcm_data, n_samples) ==
    [i \in 1..n_samples |-> float32_sample(SubSeq(pcm_data, 4 * i - 3, 4 * i))]

\* de-interleave: channels[i % num_channels].append(s)
deinterleave(all_samples, num_channels) ==
    [c \in 1..num_channels |->
        LET mine == SelectSeq([i \in 1..Len(all_samples) |-> i],
                              LAMBDA i : (i - 1) % num_channels = c - 1)
        IN  [k \in 1..Len(mine) |-> all_samples[mine[k]]]]

Raised(what) == [raised |-> what, channels |-> <<>>, sample_rate |-> 0, num_channels |-> 0]

\* the end of _parse_wav: de-interleaving of the decoded samples
parsed(all_samples, st) ==
    IF all_samples # <<>> /\ st.num_channels = 0 THEN Raised("ZeroDivisionError")
    ELSE [raised |-> "", channels |-> deinterleave(all_samples, st.num_channels),
          sample_rate |-> st.sample_rate, num_channels |-> st.num_channels]

\* _parse_wav(wav_bytes): what it raised, or "" and what it returned
parse_wav(bs) ==
    IF read(bs, 0, 4) # RIFF_TAG THEN Raised("ValueError")
    ELSE IF read(bs, 8, 4) # WAVE_TAG THEN Raised("ValueError")
    ELSE LET st == chunk_loop(bs, 12,
                       [num_channels |-> 0, sample_rate |-> 0, bits_per_sample |-> 0,
                        found |-> FALSE, pcm_data |-> <<>>, error |-> ""])
             bytes_per_sample == st.bits_per_sample \div 8
             n_samples == Len(st.pcm_data) \div bytes_per_sample
         IN  IF st.error # "" THEN Raised(st.error)
             ELSE IF ~st.found \/ st.sample_rate = 0 THEN Raised("ValueError")
             ELSE IF bytes_per_sample = 0 THEN Raised("ZeroDivisionError")
             ELSE IF st.bits_per_sample = 16
                  THEN parsed(samples_16(st.pcm_data, n_samples), st)
             ELSE IF st.bits_per_sample = 8 THEN parsed(samples_8(st.pcm_data), st)
             ELSE IF st.bits_per_sample = 24
                  THEN parsed(samples_24(st.pcm_data, n_samples), st)
             ELSE IF st.bits_per_sample = 32
                  THEN LET raw == samples_32(st.pcm_data, n_samples)
                           bad == {i \in 1..Len(raw) : raw[i].raised # ""}
                       IN  IF bad # {}
                           THEN Raised(raw[CHOOSE i \in bad : \A j \in bad : i <= j].raised)
                           ELSE parsed([i \in 1..Len(raw) |-> raw[i].value], st)
             ELSE Raised("ValueError")

\* one iteration of the bit loop of _decode_bmc at 1-based run index idx
rshw_consume_step(runs, idx, sr, baud, t) ==
    LET r == runs[idx]
    IN  IF is_full(r, sr, baud, t) THEN [bits |-> <<0>>, next |-> idx + 1]
        ELSE IF is_half(r, sr, baud, t) /\ idx + 1 <= Len(runs)
                /\ (is_half(runs[idx + 1], sr, baud, t)
                    \/ is_full(r + runs[idx + 1], sr, baud, t))
        THEN [bits |-> <<1>>, next |-> idx + 2]
        ELSE [bits |-> <<>>, next |-> idx + 1]

\* the iterations of that loop which start at a run index in idx..stop-1,
\* evaluated by halves of the index range (same iterations, same order)
RECURSIVE rshw_consume_range(_, _, _, _, _, _)
rshw_consume_range(runs, idx, stop, sr, baud, t) ==
    IF idx >= stop THEN [bits |-> <<>>, next |-> idx]
    ELSE IF stop - idx = 1 THEN rshw_consume_step(runs, idx, sr, baud, t)
    ELSE LET mid == (idx + stop) \div 2
             a == rshw_consume_range(runs, idx, mid, sr, baud, t)
             b == rshw_consume_range(runs, a.next, stop, sr, baud, t)
         IN  [bits |-> a.bits \o b.bits, next |-> b.next]

\* _decode_bmc(samples, sample_rate, baud_rate, t/100, zero_thresh): the
\* windows and the run extraction are those of BMCDecoder, the runs kept as
\* lengths only
decode_bmc(samples, sr, baud, t, thresh) ==
    LET found == run_lengths(samples, thresh)
        runs == [i \in 1..Len(found) |-> found[i][2]]
    IN  rshw_consume_range(runs, 1, Len(runs) + 1, sr, baud, t).bits

\* _bits_to_frames(bits, frame_bits): whole frames only
bits_to_frames(bits, width) ==
    [k \in 1..(Len(bits) \div width) |-> SubSeq(bits, (k - 1) * width + 1, k * width)]

pack_u16(v) == <<v % 256, v \div 256>>

\* _build_stereo_wav(left, right, sample_rate)
build_stereo_wav(left, right, sample_rate) ==
    LET n == Min(Len(left), Len(right))
        clamp(v) == Max(-32768, Min(32767, v))
        interleaved == [i \in 1..(2 * n) |->
                           IF i % 2 = 1 THEN clamp(left[(i + 1) \div 2])
                           ELSE clamp(right[i \div 2])]
        pcm_bytes == to_raw_bytes(interleaved)
        num_ch == 2
        bps == 16
        block_align == num_ch * (bps \div 8)
        byte_rate == sample_rate * block_align
        data_size == Len(pcm_bytes)
    IN  RIFF_TAG \o le_bytes(36 + data_size) \o WAVE_TAG
        \o FMT_TAG \o le_bytes(16) \o pack_u16(1) \o pack_u16(num_ch)
        \o le_bytes(sample_rate) \o le_bytes(byte_rate) \o pack_u16(block_align)
        \o pack_u16(bps)
        \o DATA_TAG \o le_bytes(data_size) \o pcm_bytes

\* build_rshw(audio_l, audio_r, td_samples, bd_samples, sample_rate)
build_rshw(audio_l, audio_r, td_samples, bd_samples, sample_rate) ==
    LET td_bits == decode_bmc(td_samples, sample_rate, BAUD_RATE, TOLERANCE_FACTOR,
                              ZERO_THRESHOLD)
        bd_bits == decode_bmc(bd_samples, sample_rate, BAUD_RATE, TOLERANCE_FACTOR,
                              ZERO_THRESHOLD)
        tdf == bits_to_frames(td_bits, TD_FRAME_BITS)
        bdf == bits_to_frames(bd_bits, BD_FRAME_BITS)
        audio_length_s == float_div(float_of(Len(audio_l)), float_of(sample_rate))
        signal == build_signal_data(tdf, bdf, audio_length_s)
    IN  serialize_rshw_format(build_stereo_wav(audio_l, audio_r, sample_rate), signal)

\* convert_4ch_wav_to_rshw(wav_bytes): what it raised, or "" and the bytes
convert_4ch_wav_to_rshw(wav_bytes) ==
    LET p == parse_wav(wav_bytes)
    IN  IF p.raised # "" THEN [raised |-> p.raised, rshw |-> <<>>]
        ELSE IF p.num_channels # 4 THEN [raised |-> "ValueError", rshw |-> <<>>]
        ELSE [raised |-> "",
              rshw |-> build_rshw(p.channels[1], p.channels[2], p.channels[3],
                                  p.channels[4], p.sample_rate)]

----------------------------------------------------------------------------
(* The track argument: FrameBuilder.__init__, sync_frames, channel_timeline *)

\* str.upper() of the identifiers offered
upper(s) == IF s = "td" THEN "TD" ELSE IF s = "bd" THEN "BD" ELSE s

\* FrameBuilder(track) / _FrameBuilder(track): the new builder, or the
\* ValueError
new_builder(track_id) ==
    LET trk == upper(track_id)
    IN  IF trk \notin {"TD", "BD"} THEN [raised |-> TRUE]
        ELSE [raised |-> FALSE, track |-> trk, frame |-> clear_all(trk)]

\* sync_frames(bits, track, max_search_bits) for any track argument: the
\* if / elif / else at its head, then the two phases
sync_frames_call(bs, track_id, max_search_bits) ==
    IF track_id = "TD" THEN [raised |-> FALSE] @@ sync_frames(bs, "TD", max_search_bits)
    ELSE IF track_id = "BD" THEN [raised |-> FALSE] @@ sync_frames(bs, "BD", max_search_bits)
    ELSE [raised |-> TRUE]

\* timeline[ch] = [(since[ch], t_off)] for every ch of chs: an interval that
\* replaces the earlier ones of its channel
close_channels_overwrite(tl, chs, since, t_off) ==
    [ch \in (DOMAIN tl) \cup chs |->
        IF ch \in chs THEN << <<since[ch], t_off>> >> ELSE tl[ch]]

\* timeline.setdefault(ch, []).append((since[ch], t_off)) for every ch of chs
close_channels(tl, chs, since, t_off) ==
    [ch \in (DOMAIN tl) \cup chs |->
        (IF ch \in DOMAIN tl THEN tl[ch] ELSE <<>>)
        \o (IF ch \in chs THEN << <<since[ch], t_off>> >> ELSE <<>>)]

\* one pass of the loop over the frames: st holds active_since and timeline
\* (a dict is a function on its keys)
timeline_frame(st, f, secs_per_frame) ==
    LET t == float_times(secs_per_frame, f.frame_index)
        active_set == {f.active_channels[i] : i \in 1..Len(f.active_channels)}
        turned_on == [ch \in (DOMAIN st.active_since) \cup active_set |->
                         IF ch \in DOMAIN st.active_since THEN st.active_since[ch] ELSE t]
        turned_off == (DOMAIN turned_on) \ active_set
    IN  [active_since |-> [ch \in (DOMAIN turned_on) \ turned_off |-> turned_on[ch]],
         timeline |-> close_channels(st.timeline, turned_off, turned_on, t)]

\* the loop over the frames
RECURSIVE timeline_frames(_, _, _)
timeline_frames(st, frames, secs_per_frame) ==
    IF frames = <<>> THEN st
    ELSE timeline_frames(timeline_frame(st, Head(frames), secs_per_frame),
                         Tail(frames), secs_per_frame)

\* channel_timeline(frames, sample_rate, baud_rate, track): the dict channel
\* name -> [(t_on, t_off), ...], times as floats; track is compared with "TD"
\* only
channel_timeline(frames, sample_rate, baud_rate, track_id) ==
    LET width == IF track_id = "TD" THEN TD_FRAME_BITS ELSE BD_FRAME_BITS
        secs_per_frame == float_div(float_of(width), float_of(baud_rate))
        st == timeline_frames([active_since |-> <<>>, timeline |-> <<>>],
                              frames, secs_per_frame)
    IN  IF frames = <<>> THEN st.timeline
        ELSE LET t_end == float_times(secs_per_frame,
                                      frames[Len(frames)].frame_index + 1)
             IN  close_channels(st.timeline, DOMAIN st.active_since,
                                st.active_since, t_end)

\* visualizer_bridge._channel_timeline(frames, bit_to_name, secs_per_frame,
\* track) with the map of trk: the frames are bit lists, frame fi is at time
\* fi * secs_per_frame and the channels still on are closed at
\* len(frames) * secs_per_frame.  The value is the events of each channel as
\* (t_on, t_off) in list order; the sort by t_on is stable and leaves the
\* events of one channel, appended by increasing t_on, in the order of their
\* appending (the order of events of different channels is not kept here).
bridge_channel_timeline(frames, trk, secs_per_frame) ==
    LET fs == [fi \in 1..Len(frames) |->
                  [frame_index |-> fi - 1,
                   active_channels |-> active_names(frames[fi], trk, 1, Len(frames[fi]))]]
        st == timeline_frames([active_since |-> <<>>, timeline |-> <<>>],
                              fs, secs_per_frame)
    IN  IF frames = <<>> THEN st.timeline
        ELSE close_channels(st.timeline, DOMAIN st.active_since, st.active_since,
                            float_times(secs_per_frame, Len(frames)))

----------------------------------------------------------------------------
(* Values of the variables a specification does not use                    *)

NoCall == [op |-> "none", channel |-> "", active |-> FALSE, raised |-> FALSE]

NoBuilder ==
    /\ track = "TD"
    /\ impl = "FrameBuilder"
    /\ frame = <<>>
    /\ ret = NoCall
    /\ output = <<>>
    /\ encoded = {}
    /\ events = <<>>
    /\ duration = 0

NoResult == [locked |-> FALSE, lock_offset |-> 0, score |-> 0, frames |-> <<>>,
             orphan_bits |-> 0, called |-> FALSE]

\* no channel_timeline call yet
NoTimeline ==
    [called |-> FALSE, raised |-> FALSE, by |-> "", track_id |-> "", intervals |-> <<>>]

NoSync ==
    /\ stream = <<>>
    /\ sync = NoResult
    /\ timeline = NoTimeline

NoVerdict == [done |-> FALSE, pass |-> TRUE, reasons |-> <<>>, evaluated |-> <<>>]

NoSim ==
    /\ entry = "verify_and_decode"
    /\ selection = "BOTH"
    /\ measured = <<>>
    /\ verdict = NoVerdict

NoRshw ==
    /\ audio_data = <<>>
    /\ signal_data = <<>>
    /\ container = <<>>
    /\ td_frames = <<>>
    /\ bd_frames = <<>>
    /\ audio_len = 0
    /\ wav = <<>>
    /\ outcome = ""
    /\ text = <<>>
    /\ encoding = <<>>

NoCodec ==
    /\ level = BMC_LOW
    /\ pcm = <<>>
    /\ sent = <<>>
    /\ seam = 0
    /\ calls = 0
    /\ tol = TOLERANCE_FACTOR

----------------------------------------------------------------------------
(* Encoder session: one BMCEncoder whose output the caller concatenates    *)

RECURSIVE BitLists(_)
BitLists(n) ==
    IF n = 0 THEN {<<>>}
    ELSE BitLists(n - 1) \cup {Append(s, b) : s \in {x \in BitLists(n - 1) : Len(x) = n - 1}, b \in {0, 1}}

\* BMCEncoder(initial_level)
NewEncoder(l) ==
    /\ level' = l
    /\ pcm' = <<>>
    /\ sent' = <<>>
    /\ seam' = 0
    /\ calls' = 0
    /\ UNCHANGED <<tol, fbVars, syncVars, simVars, rshwVars>>

\* encode_bits on an encoder that starts every call from BMC_LOW
EncodeBitsFresh(bits) ==
    /\ calls < MaxCalls
    /\ LET e == encode_bits(BMC_LOW, bits)
       IN  /\ level' = e.level
           /\ pcm' = pcm \o e.samples
    /\ sent' = sent \o bits
    /\ seam' = Len(pcm)
    /\ calls' = calls + 1
    /\ UNCHANGED <<tol, fbVars, syncVars, simVars, rshwVars>>

\* pcm += enc.encode_bits(bits)
EncodeBits(bits) ==
    /\ calls < MaxCalls
    /\ LET e == encode_bits(level, bits)
       IN  /\ level' = e.level
           /\ pcm' = pcm \o e.samples
    /\ sent' = sent \o bits
    /\ seam' = Len(pcm)
    /\ calls' = calls + 1
    /\ UNCHANGED <<tol, fbVars, syncVars, simVars, rshwVars>>

InitEnc ==
    /\ level \in {BMC_LOW, BMC_HIGH}
    /\ pcm = <<>>
    /\ sent = <<>>
    /\ seam = 0
    /\ calls = 0
    /\ tol = TOLERANCE_FACTOR
    /\ NoBuilder
    /\ NoSync
    /\ NoSim
    /\ NoRshw

\* the byte of the encoder's usage example
ExampleByte == <<1, 0, 1, 1, 0, 0, 1, 0>>

NextEnc ==
    \/ \E l \in {BMC_LOW, BMC_HIGH} : NewEncoder(l)
    \/ \E bits \in BitLists(MaxBits) \cup {ExampleByte} : EncodeBits(bits)

SpecEnc == InitEnc /\ [][NextEnc]_vars

\* n equal consecutive samples start at index i of s
RunAt(s, i, n) == i + n - 1 <= Len(s) /\ \A j \in i..(i + n - 2) : s[j] = s[j + 1]

\* the longest stretch of equal consecutive samples of s has at most n samples
NoRunLongerThan(s, n) == \A i \in 1..(Len(s) - n) : ~RunAt(s, i, n + 1)

Decoded == decode(pcm, SAMPLE_RATE, BAUD_RATE, tol, ZERO_THRESHOLD)

\* C1: decoding the encoder's output with the default decoder (44100 Hz,
\* 4800 baud, tolerance 0.30, zero threshold 200) gives back exactly the bits
\* that were encoded, in order, and no DecodeError, from either initial level.
C1_RoundTrip ==
    /\ BitValues(Decoded.bits) = sent
    /\ Decoded.errors = <<>>

C1_Witness ==
    /\ calls = 1
    /\ level = BMC_HIGH
    /\ sent = <<1, 0, 1>>
    /\ BitValues(Decoded.bits) = <<1, 0, 1>>

\* C4: the concatenation of two encode_bits outputs of one encoder, with no
\* reset in between, has no stretch of equal samples longer than N = 9, and
\* the first sample of the second output differs from the last of the first.
C4_PhaseContinuity ==
    /\ NoRunLongerThan(pcm, SAMPLES_PER_BIT)
    /\ (calls >= 2 /\ 0 < seam /\ seam < Len(pcm)) => pcm[seam] # pcm[seam + 1]

C4_Witness ==
    /\ calls = 2
    /\ seam = 2 * SAMPLES_PER_BIT
    /\ sent = <<0, 0, 0, 1>>
    /\ RunAt(pcm, 1, SAMPLES_PER_BIT) /\ RunAt(pcm, seam + 1, SAMPLES_PER_BIT)

----------------------------------------------------------------------------
(* Decoder session: a BMCDecoder and a sample buffer built stretch by      *)
(* stretch                                                                 *)

Amplitudes == {BMC_HIGH, BMC_LOW}
RunLens == {1, 4, 5, 6, 7, 9, 10, 13}
Tolerances == {0, TOLERANCE_FACTOR}

\* BMCDecoder(tolerance = t/100) and an empty sample buffer
NewDecoder(t) ==
    /\ tol' = t
    /\ pcm' = <<>>
    /\ calls' = 0
    /\ UNCHANGED <<level, sent, seam, fbVars, syncVars, simVars, rshwVars>>

\* the buffer grows by n samples of value v
AppendSamples(v, n) ==
    /\ calls < MaxChunks
    /\ pcm' = pcm \o Rep(v, n)
    /\ calls' = calls + 1
    /\ UNCHANGED <<level, sent, seam, tol, fbVars, syncVars, simVars, rshwVars>>

InitDec ==
    /\ tol \in Tolerances
    /\ pcm = <<>>
    /\ calls = 0
    /\ level = BMC_LOW
    /\ sent = <<>>
    /\ seam = 0
    /\ NoBuilder
    /\ NoSync
    /\ NoSim
    /\ NoRshw

NextDec ==
    \/ \E t \in Tolerances : NewDecoder(t)
    \/ \E v \in Amplitudes, n \in RunLens : AppendSamples(v, n)
    \/ AppendSamples(0, 1)

SpecDec == InitDec /\ [][NextDec]_vars

Runs == run_lengths(pcm, ZERO_THRESHOLD)

\* run lengths the tolerance-0 windows hold at 44100 Hz / 4800 baud
NominalFull == {9, 10}
NominalHalf == {4, 5}
Nominal(r) == r \in NominalFull \cup NominalHalf

ErrorAt(i) ==
    \E k \in 1..Len(Decoded.errors) :
        /\ Decoded.errors[k].sample_pos = Runs[i][1]
        /\ Decoded.errors[k].run_length = Runs[i][2]

MarginalSecond(i) ==
    /\ i > 1
    /\ \E k \in 1..Len(Decoded.bits) :
          /\ Decoded.bits[k].sample_pos = Runs[i - 1][1]
          /\ Decoded.bits[k].run_b = Runs[i][2]
          /\ ~Decoded.bits[k].in_tolerance
          /\ Decoded.bits[k].run_a + Decoded.bits[k].run_b \in NominalFull

----------------------------------------------------------------------------
(* Frame builder: one builder object and the calls made on it              *)

Tracks == {"TD", "BD"}
Impls == {"FrameBuilder", "_FrameBuilder"}

\* channel names offered to set_channel: two of each track's map (next to a
\* blank slot, first and last bit), so each track also sees names it lacks
ChannelNames == {"rolfe_mouth", "fats_head_right", "billybob_foot_tap", "spot_guitar"}

Call(op, channel, active, raised) ==
    [op |-> op, channel |-> channel, active |-> active, raised |-> raised]

\* FrameBuilder(track) / _FrameBuilder(track)
NewBuilder(trk, imp) ==
    /\ track' = trk
    /\ impl' = imp
    /\ frame' = clear_all(trk)
    /\ ret' = Call("new", "", FALSE, FALSE)
    /\ output' = <<>>
    /\ encoded' = {}
    /\ events' = <<>>
    /\ duration' = 0
    /\ UNCHANGED <<encVars, syncVars, simVars, rshwVars>>

\* builder.set_channel(channel, active)
SetChannel(channel, active) ==
    /\ ret.op # "none"
    /\ LET sc == set_channel(frame, track, channel, active)
       IN  /\ frame' = sc.frame
           /\ ret' = Call("set_channel", channel, active, sc.raised)
    /\ output' = <<>>
    /\ encoded' = {}
    /\ events' = <<>>
    /\ duration' = 0
    /\ UNCHANGED <<track, impl, encVars, syncVars, simVars, rshwVars>>

\* builder.clear_all()
ClearAll ==
    /\ ret.op # "none"
    /\ frame' = clear_all(track)
    /\ ret' = Call("clear_all", "", FALSE, FALSE)
    /\ output' = <<>>
    /\ encoded' = {}
    /\ events' = <<>>
    /\ duration' = 0
    /\ UNCHANGED <<track, impl, encVars, syncVars, simVars, rshwVars>>

\* builder.build(evs, dur)
Build(evs, dur) ==
    /\ ret.op # "none"
    /\ LET b == build_on(frame, track, impl, evs, dur)
       IN  /\ frame' = b.frame
           /\ ret' = Call("build", "", FALSE, b.raised)
           /\ output' = b.output
           /\ encoded' = b.encoded
    /\ events' = evs
    /\ duration' = dur
    /\ UNCHANGED <<track, impl, encVars, syncVars, simVars, rshwVars>>

Event(t, channel, active) == [time |-> t, channel |-> channel, active |-> active]

\* all sequences over S of length at most n
RECURSIVE Lists(_, _)
Lists(S, n) ==
    IF n = 0 THEN {<<>>}
    ELSE Lists(S, n - 1) \cup
         {Append(l, x) : l \in {y \in Lists(S, n - 1) : Len(y) = n - 1}, x \in S}

\* microseconds: one frame period of each track (846 and 864 samples), a
\* duration inside the second frame, four frame periods
OneFrame(trk) == IF trk = "TD" THEN 19184 ELSE 19592
FourFrames(trk) == IF trk = "TD" THEN 76735 ELSE 78368
MidSecondFrame == 30 * 1000
PastTheEnd == 80 * 1000

NameA(trk) == IF trk = "TD" THEN "rolfe_mouth" ELSE "spot_guitar"
NameB(trk) == IF trk = "TD" THEN "fats_head_right" ELSE "billybob_foot_tap"

\* events offered to build: two channels on at time 0, one of them also off
\* at time 0, one off in the middle of the second frame, one after every
\* offered duration
BuildEvents(trk) ==
    { Event(0, NameA(trk), TRUE), Event(0, NameB(trk), TRUE),
      Event(0, NameA(trk), FALSE),
      Event(MidSecondFrame, NameA(trk), FALSE), Event(PastTheEnd, NameB(trk), FALSE) }

BuildDurations(trk) == {0, OneFrame(trk), MidSecondFrame, FourFrames(trk)}

\* build as a function of its arguments: a fresh builder of either class is
\* handed one event list and one duration
InitBuild ==
    /\ track \in Tracks
    /\ impl \in Impls
    /\ frame = clear_all(track)
    /\ ret = Call("new", "", FALSE, FALSE)
    /\ output = <<>>
    /\ encoded = {}
    /\ events \in Lists(BuildEvents(track), MaxEvents)
    /\ duration \in BuildDurations(track)
    /\ NoCodec
    /\ NoSync
    /\ NoSim
    /\ NoRshw

BuildCall ==
    /\ ret.op = "new"
    /\ Build(events, duration)

NextBuild == BuildCall

SpecBuild == InitBuild /\ [][NextBuild]_vars

BuildDone == ret.op = "build" /\ ~ret.raised

\* the sample position of an event snapped down to a frame boundary
Snapped(trk, e) == (time_to_sample(e.time) \div frame_samps(trk)) * frame_samps(trk)

RECURSIVE ApplyEvents(_, _, _)
ApplyEvents(fr, trk, evs) ==
    IF evs = <<>> THEN fr
    ELSE ApplyEvents(set_channel(fr, trk, Head(evs).channel, Head(evs).active).frame,
                     trk, Tail(evs))

\* the frame state after every event whose snapped position is at most k
\* frame periods, applied in time order
FrameAt(k) ==
    ApplyEvents(clear_all(track), track,
                SelectSeq(sorted_events(events),
                          LAMBDA e : Snapped(track, e) <= k * frame_samps(track)))

\* the bytes of frame period k of the output
Period(k) ==
    SubSeq(output, 2 * k * frame_samps(track) + 1, 2 * (k + 1) * frame_samps(track))

IsEncodingOf(bytes, fr) ==
    \E l \in {BMC_HIGH, BMC_LOW} : bytes = to_raw_bytes(encode_bits(l, fr).samples)

\* C3: the output of build is a whole number of frame periods and period k
\* is the complete encoding of the frame state after the events whose
\* snapped position is at most k frame periods.
C3_WholeFrames ==
    BuildDone =>
        LET n == Len(output) \div (2 * frame_samps(track))
        IN  /\ Len(output) = 2 * frame_samps(track) * n
            /\ \A k \in 0..(n - 1) : IsEncodingOf(Period(k), FrameAt(k))

\* the same statement for the export-bridge copy of the builder only
BridgeWholeFrames == impl = "_FrameBuilder" => C3_WholeFrames

\* T: floor(duration * 44100) rounded up to a multiple of the frame period
RoundedDuration ==
    ((time_to_sample(duration) + frame_samps(track) - 1) \div frame_samps(track))
        * frame_samps(track)

\* C6: build returns exactly 2*T bytes, whatever the event times.
C6_OutputLength == BuildDone => Len(output) = 2 * RoundedDuration

AllOnAtZero ==
    \A i \in 1..Len(events) :
        /\ events[i].time = 0
        /\ events[i].active
        /\ events[i].channel \in DOMAIN channel_map(track)

SwitchedOn == {events[i].channel : i \in 1..Len(events)}

Range(s) == {s[i] : i \in 1..Len(s)}

Synced ==
    sync_frames(BitValues(decode(unpack_samples(output), SAMPLE_RATE, BAUD_RATE,
                                 TOLERANCE_FACTOR, ZERO_THRESHOLD).bits),
                track, MAX_SEARCH_BITS)

\* C8: when every event is at time 0 and switches a channel on, and the
\* duration is exactly m >= 1 frame periods, decoding and synchronising the
\* built bytes yields m frames, each with its blank bits clear and with
\* exactly the switched-on channels active.
C8_BuildRoundTrip ==
    (/\ BuildDone
     /\ AllOnAtZero
     /\ time_to_sample(duration) >= frame_samps(track)
     /\ time_to_sample(duration) % frame_samps(track) = 0)
    => LET r == Synced
       IN  /\ Len(r.frames) = time_to_sample(duration) \div frame_samps(track)
           /\ \A i \in 1..Len(r.frames) :
                /\ r.frames[i].blank_ok
                /\ Range(r.frames[i].active_channels) = SwitchedOn
                /\ Len(r.frames[i].active_channels) = Cardinality(SwitchedOn)

C8_Witness ==
    /\ BuildDone
    /\ track = "TD"
    /\ events = <<Event(0, "rolfe_mouth", TRUE)>>
    /\ duration = OneFrame("TD")
    /\ Len(Synced.frames) = 1
    /\ Synced.frames[1].active_channels = <<"rolfe_mouth">>

----------------------------------------------------------------------------
(* A builder in use: any interleaving of set_channel, clear_all and build  *)

OtherTrack(trk) == IF trk = "TD" THEN "BD" ELSE "TD"

\* events offered to build in a session: the channel next to a blank slot
\* on at time 0, a channel on inside the second frame, a name the track lacks
SessionEvents(trk) ==
    { Event(0, NameB(trk), TRUE), Event(MidSecondFrame, NameA(trk), TRUE),
      Event(0, NameA(OtherTrack(trk)), TRUE) }

SessionDurations(trk) == {0, OneFrame(trk), MidSecondFrame}

\* event lists offered to build in a session: none, one event, and two events
\* of one channel listed against their order in time
SessionLists(trk) ==
    Lists(SessionEvents(trk), 1)
    \cup { <<Event(MidSecondFrame, NameA(trk), TRUE), Event(0, NameA(trk), FALSE)>> }

InitFB ==
    /\ track \in Tracks
    /\ impl \in Impls
    /\ frame = clear_all(track)
    /\ ret = Call("new", "", FALSE, FALSE)
    /\ output = <<>>
    /\ encoded = {}
    /\ events = <<>>
    /\ duration = 0
    /\ NoCodec
    /\ NoSync
    /\ NoSim
    /\ NoRshw

NextFB ==
    \/ \E trk \in Tracks, imp \in Impls : NewBuilder(trk, imp)
    \/ \E channel \in ChannelNames, active \in BOOLEAN : SetChannel(channel, active)
    \/ ClearAll
    \/ \E evs \in SessionLists(track), dur \in SessionDurations(track) :
            Build(evs, dur)

SpecFB == InitFB /\ [][NextFB]_vars

BlankIndices == IF track = "TD" THEN {56, 65, 70} ELSE {45}

\* C2: after any sequence of builder operations the frame state holds 0 at
\* every blank index, and so does every frame state build has encoded.
C2_BlankBitsZero ==
    \A b \in BlankIndices :
        /\ frame[b] = 0
        /\ \A f \in encoded : f[b] = 0

C2_Witness ==
    /\ ret.op = "build"
    /\ ~ret.raised
    /\ track = "TD"
    /\ frame[55] = 1
    /\ \E f \in encoded : f[55] = 1

\* C10: a set_channel call with a name that is not in the track's map, or
\* that resolves to a blank position, raises and leaves the frame state as
\* it was; any other call does not raise and writes 1 (active) or 0
\* (inactive) at bit map[name], every other bit keeping its value.
C10_SetChannel ==
    [][ret'.op = "set_channel" =>
         LET name == ret'.channel
         IN  IF name \notin DOMAIN channel_map(track)
                \/ channel_map(track)[name] \in BlankIndices
             THEN ret'.raised /\ frame' = frame
             ELSE /\ ~ret'.raised
                  /\ frame'[channel_map(track)[name]] = (IF ret'.active THEN 1 ELSE 0)
                  /\ \A b \in 1..Len(frame) :
                        b # channel_map(track)[name] => frame'[b] = frame[b]
                  /\ Len(frame') = Len(frame)]_vars

\* a call that raised on a frame with a channel on, which is still on
C10_Witness ==
    /\ ret.op = "set_channel"
    /\ ret.raised
    /\ track = "BD"
    /\ ret.channel = "rolfe_mouth"
    /\ frame[44] = 1

----------------------------------------------------------------------------
(* sync_frames as a function of the bit stream                             *)

MaxFrames == 5

\* frames offered: all bits 0, one channel on, every channel on, and a frame
\* with a blank bit set
CleanFrames(trk) ==
    { clear_all(trk),
      set_channel(clear_all(trk), trk, NameA(trk), TRUE).frame,
      [b \in 1..frame_bits(trk) |-> IF b \in blank_bits(trk) THEN 0 ELSE 1] }

DirtyFrame(trk) == [b \in 1..frame_bits(trk) |-> 1]

RECURSIVE Flatten(_)
Flatten(ss) == IF ss = <<>> THEN <<>> ELSE Head(ss) \o Flatten(Tail(ss))

SyncStreams(trk) ==
    { Flatten(fs) : fs \in Lists(CleanFrames(trk) \cup {DirtyFrame(trk)}, MaxFrames) \ {<<>>} }

\* streams that are not a whole number of frames: no bits, half a frame, and
\* a frame followed by half a frame
MaxTailBits == 50

ShortStreams(trk) ==
    { <<>>, Rep(1, MaxTailBits), clear_all(trk) \o Rep(1, MaxTailBits) }

InitSync ==
    /\ track \in Tracks
    /\ stream \in SyncStreams(track) \cup ShortStreams(track)
    /\ sync = NoResult
    /\ timeline = NoTimeline
    /\ impl = "FrameBuilder"
    /\ frame = <<>>
    /\ ret = NoCall
    /\ output = <<>>
    /\ encoded = {}
    /\ events = <<>>
    /\ duration = 0
    /\ NoCodec
    /\ NoSim
    /\ NoRshw

\* sync_frames(stream, track)
SyncFrames ==
    /\ ~sync.called
    /\ sync' = [called |-> TRUE] @@ sync_frames(stream, track, MAX_SEARCH_BITS)
    /\ UNCHANGED <<stream, timeline, encVars, fbVars, simVars, rshwVars>>

NextSync == SyncFrames

SpecSync == InitSync /\ [][NextSync]_vars

FrameCount == Len(stream) \div frame_bits(track)

AllFramesValid ==
    \A k \in 0..(FrameCount - 1) :
        \A b \in BlankIndices : stream[k * frame_bits(track) + b] = 0

\* C5: on a stream of K >= 1 back-to-back frames whose blank positions are
\* all 0, sync_frames returns lock_offset 0 and score min(3, K), and is
\* locked exactly when K >= 3.
C5_LockAtZero ==
    (sync.called /\ AllFramesValid) =>
        /\ sync.lock_offset = 0
        /\ sync.score = Min(3, FrameCount)
        /\ sync.locked <=> FrameCount >= 3

\* the same statement for streams of more than three frames
LongStreamsLock == FrameCount > 3 => C5_LockAtZero

C5_ShortStream ==
    /\ sync.called
    /\ AllFramesValid
    /\ FrameCount = 3
    /\ sync.score = 0
    /\ ~sync.locked

----------------------------------------------------------------------------
(* The conformance verdict as a function of what the two tracks gave       *)

\* bits decoded and decode errors: nothing, one error only, a short clean
\* stream, a long clean one, error rates of exactly 0.02 and of 0.03
DecodeCounts ==
    { <<0, 0>>, <<0, 1>>, <<400, 0>>, <<5000, 0>>, <<4900, 100>>, <<4850, 150>> }

\* frames, frames with clear blanks, lock score: nothing, all clear, blank
\* rates of exactly 0.98 and of 0.96, three clean frames without a lock,
\* a lock search that stopped at two
SyncCounts ==
    { <<0, 0, 0>>, <<50, 50, 3>>, <<50, 49, 3>>, <<50, 48, 3>>, <<3, 3, 0>>, <<4, 2, 2>> }

\* the counts one track can give: its frames fit in its bits, and fewer
\* than one search window plus one frame of bits are left over
Measurements(trk) ==
    { m \in { [n_bits |-> d[1], n_errors |-> d[2], n_frames |-> f[1],
               n_blank_ok |-> f[2], score |-> f[3]] :
                 d \in DecodeCounts, f \in SyncCounts } :
        /\ m.n_frames * frame_bits(trk) <= m.n_bits
        /\ m.n_bits < MAX_SEARCH_BITS + (m.n_frames + 1) * frame_bits(trk) }

InitVerdict ==
    /\ \/ entry = "verify_and_decode" /\ selection = "BOTH"
       \/ entry = "run_sim" /\ selection \in {"TD", "BD", "BOTH"}
    /\ measured \in { ms \in [Tracks -> UNION {Measurements(trk) : trk \in Tracks}] :
                        \A trk \in Tracks : ms[trk] \in Measurements(trk) }
    /\ verdict = NoVerdict
    /\ NoBuilder
    /\ NoCodec
    /\ NoSync
    /\ NoRshw

VerifyAndDecode ==
    /\ entry = "verify_and_decode"
    /\ ~verdict.done
    /\ verdict' = verify_and_decode(measured)
    /\ UNCHANGED <<entry, selection, measured, encVars, fbVars, syncVars, rshwVars>>

RunSim ==
    /\ entry = "run_sim"
    /\ ~verdict.done
    /\ verdict' = run_sim(measured, selection)
    /\ UNCHANGED <<entry, selection, measured, encVars, fbVars, syncVars, rshwVars>>

NextVerdict == VerifyAndDecode \/ RunSim

SpecVerdict == InitVerdict /\ [][NextVerdict]_vars

\* the thresholds a track violates, from its counts
Violations(trk) ==
    LET m == measured[trk]
        total == IF m.n_bits + m.n_errors = 0 THEN 1 ELSE m.n_bits + m.n_errors
        frames == IF m.n_frames = 0 THEN 1 ELSE m.n_frames
    IN  (IF 50 * m.n_errors > total THEN {"error rate exceeds limit"} ELSE {})
        \cup (IF m.score < 3 THEN {"failed to lock on frame boundaries"} ELSE {})
        \cup (IF 50 * m.n_blank_ok < 49 * frames
              THEN {"blank-bit integrity below limit"} ELSE {})

\* the verdict over the set trks of tracks: PASS iff none of them violates a
\* threshold, one reason per violated threshold per track, all of trks
\* evaluated
VerdictOver(trks) ==
    /\ verdict.pass <=> \A trk \in trks : Violations(trk) = {}
    /\ Range(verdict.reasons) =
          UNION {{Reason(trk, w) : w \in Violations(trk)} : trk \in trks}
    /\ \A i, j \in 1..Len(verdict.reasons) :
          verdict.reasons[i] = verdict.reasons[j] => i = j
    /\ Range(verdict.evaluated) = trks

SelectedTracks ==
    IF entry = "verify_and_decode" \/ selection = "BOTH" THEN {"TD", "BD"}
    ELSE {selection}

----------------------------------------------------------------------------
(* The decoder: every run is accounted for                                 *)

OneRunBits(d) == {k \in 1..Len(d.bits) : d.bits[k].run_b = None}
TwoRunBits(d) == {k \in 1..Len(d.bits) : d.bits[k].run_b # None}

\* run i starts a bit, or is the reason of an error, or is the second run
\* of the bit that run i-1 starts (runs the run list, d what decode returned)
RunStartsBit(i, runs, d) ==
    \E k \in 1..Len(d.bits) :
        d.bits[k].sample_pos = runs[i][1] /\ d.bits[k].run_a = runs[i][2]
RunIsError(i, runs, d) ==
    \E k \in 1..Len(d.errors) :
        d.errors[k].sample_pos = runs[i][1] /\ d.errors[k].run_length = runs[i][2]
RunEndsBit(i, runs, d) ==
    /\ i > 1
    /\ \E k \in TwoRunBits(d) :
          d.bits[k].sample_pos = runs[i - 1][1] /\ d.bits[k].run_b = runs[i][2]

\* C11: decode returns a bit list and an error list for every sample
\* sequence, and every extracted run is consumed exactly once, whatever
\* errors came before it: one-run bits + 2 * two-run bits + errors = runs,
\* each run being the start of a bit, an error, or the second run of a bit.
C11_EveryRunConsumed ==
    LET runs == Runs
        d == Decoded
    IN  /\ Cardinality(OneRunBits(d)) + 2 * Cardinality(TwoRunBits(d)) + Len(d.errors)
              = Len(runs)
        /\ \A i \in 1..Len(runs) :
              RunStartsBit(i, runs, d) \/ RunIsError(i, runs, d) \/ RunEndsBit(i, runs, d)

\* an out-of-window run, then the two runs of a bit 1 decoded after it
C11_Witness ==
    /\ tol = TOLERANCE_FACTOR
    /\ Len(Runs) = 3
    /\ Runs[1][2] = 13 /\ Runs[2][2] = 4 /\ Runs[3][2] = 5
    /\ Len(Decoded.errors) = 1
    /\ Len(Decoded.bits) = 1
    /\ Decoded.bits[1].bit = 1
    /\ Decoded.bits[1].run_b = 5
    /\ Decoded.errors[1].sample_pos < Decoded.bits[1].sample_pos

----------------------------------------------------------------------------
(* sync_frames without a lock                                              *)

\* the frames are the consecutive frame-wide windows of the stream from
\* bit offset off on
FramesStartAt(off) ==
    /\ Len(sync.frames) = (Len(stream) - off) \div frame_bits(track)
    /\ \A i \in 1..Len(sync.frames) :
          /\ sync.frames[i].bit_offset = off + (i - 1) * frame_bits(track)
          /\ sync.frames[i].frame_index = i - 1
          /\ sync.frames[i].bits =
                SubSeq(stream, off + (i - 1) * frame_bits(track) + 1,
                       off + i * frame_bits(track))

CleanAt(c, k) ==
    /\ c + (k + 1) * frame_bits(track) <= Len(stream)
    /\ \A b \in BlankIndices : stream[c + k * frame_bits(track) + b] = 0

\* consecutive clean frames from candidate c, three at most
CleanRun(c) ==
    IF ~CleanAt(c, 0) THEN 0
    ELSE IF ~CleanAt(c, 1) THEN 1
    ELSE IF ~CleanAt(c, 2) THEN 2 ELSE 3

\* the candidates the search examines
SearchWindow ==
    {c \in 0..(MAX_SEARCH_BITS - 1) : c < Len(stream) - 3 * frame_bits(track)}

----------------------------------------------------------------------------
(* The serializer as a function of the audio bytes and the signal codes    *)

MaxAudioBytes == 2
MaxCodes == 2

\* audio: short byte strings and one of 300 bytes (a length above one byte)
AudioInputs == Lists({0, 82, 255}, MaxAudioBytes) \cup {Rep(7, 300)}

\* signal codes: the delimiter, a TD code, the largest BD code, and a value
\* that needs two bytes
SignalInputs == Lists({0, 1, 246, 300}, MaxCodes)

InitSer ==
    /\ audio_data \in AudioInputs
    /\ signal_data \in SignalInputs
    /\ container = <<>>
    /\ td_frames = <<>>
    /\ bd_frames = <<>>
    /\ audio_len = 0
    /\ wav = <<>>
    /\ outcome = ""
    /\ text = <<>>
    /\ encoding = <<>>
    /\ NoBuilder
    /\ NoCodec
    /\ NoSync
    /\ NoSim

\* _serialize_rshw_format(audio_data, signal_data)
Serialize ==
    /\ container = <<>>
    /\ container' = serialize_rshw_format(audio_data, signal_data)
    /\ UNCHANGED <<audio_data, signal_data, td_frames, bd_frames, audio_len, wav,
                   text, encoding,
                   outcome, encVars, fbVars, syncVars, simVars>>

NextSer == Serialize

SpecSer == InitSer /\ [][NextSer]_vars

\* Reading a container back, record by record (MS-NRBF)

ByteAt(bs, p) == IF p >= 1 /\ p <= Len(bs) THEN bs[p] ELSE 0

Slice(bs, p, n) == [k \in 1..n |-> ByteAt(bs, p + k - 1)]

\* the signed 32-bit little-endian value at p
ReadI32(bs, p) ==
    IF ByteAt(bs, p + 3) < 128
    THEN ByteAt(bs, p) + 256 * ByteAt(bs, p + 1) + 65536 * ByteAt(bs, p + 2)
         + 16777216 * ByteAt(bs, p + 3)
    ELSE -1 - ((255 - ByteAt(bs, p)) + 256 * (255 - ByteAt(bs, p + 1))
               + 65536 * (255 - ByteAt(bs, p + 2))
               + 16777216 * (255 - ByteAt(bs, p + 3)))

\* the length-prefixed string at p (lengths below 2^14): its text and the
\* position after it
ReadString(bs, p) ==
    LET long == ByteAt(bs, p) >= 128
        n == IF long THEN (ByteAt(bs, p) - 128) + 128 * ByteAt(bs, p + 1)
             ELSE ByteAt(bs, p)
        start == IF long THEN p + 2 ELSE p + 1
    IN  [text |-> Slice(bs, start, n), next |-> start + n]

ElementSize(type) == IF type = 8 THEN 4 ELSE 1

\* the record at p: its tag, its fields and the position after it; tag -1
\* for bytes that are no whole record of a kind the container uses
ReadRecord(bs, p) ==
    LET tag == ByteAt(bs, p)
        bad == [tag |-> -1, next |-> Len(bs) + 1]
    IN  IF tag = 0 /\ p + 16 <= Len(bs)
        THEN [tag |-> 0, next |-> p + 17]
        ELSE IF tag = 12
        THEN LET s == ReadString(bs, p + 5)
             IN  IF s.next - 1 <= Len(bs)
                 THEN [tag |-> 12, id |-> ReadI32(bs, p + 1), name |-> s.text,
                       next |-> s.next]
                 ELSE bad
        ELSE IF tag = 5
        THEN LET cls == ReadString(bs, p + 5)
                 count == ReadI32(bs, cls.next)
                 m1 == ReadString(bs, cls.next + 4)
                 m2 == ReadString(bs, m1.next)
                 m3 == ReadString(bs, m2.next)
             IN  IF count = 3 /\ m3.next + 9 <= Len(bs)
                 THEN [tag |-> 5, id |-> ReadI32(bs, p + 1), name |-> cls.text,
                       members |-> <<m1.text, m2.text, m3.text>>,
                       kinds |-> Slice(bs, m3.next, 3),
                       types |-> Slice(bs, m3.next + 3, 3),
                       library |-> ReadI32(bs, m3.next + 6),
                       next |-> m3.next + 10]
                 ELSE bad
        ELSE IF tag = 9 /\ p + 4 <= Len(bs)
        THEN [tag |-> 9, id |-> ReadI32(bs, p + 1), next |-> p + 5]
        ELSE IF tag = 10 THEN [tag |-> 10, next |-> p + 1]
        ELSE IF tag = 11 THEN [tag |-> 11, next |-> p + 1]
        ELSE IF tag = 15 /\ p + 9 <= Len(bs)
        THEN LET n == ReadI32(bs, p + 5)
                 type == ByteAt(bs, p + 9)
             IN  IF n >= 0 /\ n <= Len(bs) /\ p + 9 + n * ElementSize(type) <= Len(bs)
                 THEN [tag |-> 15, id |-> ReadI32(bs, p + 1), length |-> n,
                       type |-> type,
                       data |-> Slice(bs, p + 10, n * ElementSize(type)),
                       next |-> p + 10 + n * ElementSize(type)]
                 ELSE bad
        ELSE bad

RECURSIVE ReadRecords(_, _)
ReadRecords(bs, p) ==
    IF p > Len(bs) THEN <<>>
    ELSE <<ReadRecord(bs, p)>> \o ReadRecords(bs, ReadRecord(bs, p).next)

Records == ReadRecords(container, 1)

Tags == [i \in 1..Len(Records) |-> Records[i].tag]

\* the int32 values held by the bytes of an int32 array
Int32Values(data) == [k \in 1..(Len(data) \div 4) |-> ReadI32(data, 4 * k - 3)]

\* the class descriptor names the three fields with element types byte,
\* int32, byte
ClassDescribes(r) ==
    /\ r.members = <<AUDIO_MEMBER, SIGNAL_MEMBER, VIDEO_MEMBER>>
    /\ r.kinds = <<7, 7, 7>>
    /\ r.types = <<2, 8, 2>>

\* array record r holds the audio bytes / the signal codes, with its length
\* field equal to the element count
HoldsAudio(r) == r.type = 2 /\ r.length = Len(audio_data) /\ r.data = audio_data
HoldsSignal(r) ==
    r.type = 8 /\ r.length = Len(signal_data) /\ Int32Values(r.data) = signal_data

----------------------------------------------------------------------------
(* SpecSig: one call of _build_signal_data on decoded frames                *)

\* a hardware frame of the given width with exactly the positions in on set
HwFrame(bits, on) == [i \in 1..bits |-> IF i \in on THEN 1 ELSE 0]

\* k frames, the frame at index j (0-based) lighting position (j mod bits) + 1
Walking(bits, k) == [j \in 1..k |-> HwFrame(bits, {((j - 1) % bits) + 1})]

FrameLists(bits) ==
    { <<>>,
      <<HwFrame(bits, {1, bits})>>,
      Walking(bits, 3),
      Walking(bits, MaxRshwFrames) }

\* len(audio_l) at 44100 samples per second; 735 samples are one output frame
AudioLengths == {0, 734, 735, 1470, 90405, MaxRshwFrames * 735}

InitSig ==
    /\ NoCodec
    /\ NoBuilder
    /\ NoSync
    /\ NoSim
    /\ audio_data = <<>>
    /\ signal_data = <<>>
    /\ container = <<>>
    /\ td_frames \in FrameLists(TD_FRAME_BITS)
    /\ bd_frames \in FrameLists(BD_FRAME_BITS)
    /\ audio_len \in AudioLengths
    /\ wav = <<>>
    /\ outcome = ""
    /\ text = <<>>
    /\ encoding = <<>>

\* audio_length_s = len(audio_l) / sample_rate
\* signal_data = _build_signal_data(td_frames, bd_frames, audio_length_s)
BuildSignalData ==
    /\ outcome = ""
    /\ signal_data' = build_signal_data(td_frames, bd_frames,
                          float_div(float_of(audio_len), float_of(SAMPLE_RATE)))
    /\ outcome' = "signal_data"
    /\ UNCHANGED <<audio_data, container, td_frames, bd_frames, audio_len, wav,
                   text, encoding,
                   encVars, fbVars, syncVars, simVars>>

NextSig == BuildSignalData
SpecSig == InitSig /\ [][NextSig]_vars

\* the list cut at its 0 entries: what follows each 0 up to the next one
Delimiters == SelectSeq([i \in 1..Len(signal_data) |-> i],
                        LAMBDA i : signal_data[i] = 0)
CodesOf(n) ==
    SubSeq(signal_data, Delimiters[n + 1] + 1,
           IF n + 1 < Len(Delimiters) THEN Delimiters[n + 2] - 1 ELSE Len(signal_data))

\* floor(audio_length * 60), and floor(t / (bits / 4800)) at t = n / 60
WholeFrames == (audio_len * RSHW_FPS) \div SAMPLE_RATE
FrameIndexAt(n, bits) == (n * BAUD_RATE) \div (RSHW_FPS * bits)

\* i + first for every set bit i (0-based, ascending) of the frame at idx,
\* nothing when the frames end before idx
CodesAt(frames, idx, first) ==
    IF idx < Len(frames)
    THEN LET f == frames[idx + 1]
             on == SelectSeq([i \in 1..Len(f) |-> i], LAMBDA i : f[i] = 1)
         IN  [j \in 1..Len(on) |-> (on[j] - 1) + first]
    ELSE <<>>

\* C14: the signal-code list starts with a 0, holds one 0 per output frame
\* for floor(audio_length * 60) output frames, and after the 0 of output
\* frame n come the codes i + 1 of the TD frame at floor(t / (94/4800)) and
\* then the codes i + 151 of the BD frame at floor(t / (96/4800)), t = n / 60,
\* a track whose frames end before t adding none; codes are in 1..94 or
\* 151..246
C14_SignalCodes ==
    outcome = "signal_data" =>
        /\ Len(Delimiters) = WholeFrames
        /\ signal_data # <<>> => signal_data[1] = 0
        /\ \A i \in 1..Len(signal_data) :
               signal_data[i] \in {0} \cup (1..94) \cup (151..246)
        /\ \A n \in 0..(Len(Delimiters) - 1) :
               CodesOf(n) = CodesAt(td_frames, FrameIndexAt(n, TD_FRAME_BITS), 1)
                            \o CodesAt(bd_frames, FrameIndexAt(n, BD_FRAME_BITS), 151)

----------------------------------------------------------------------------
(* SpecWav: one call of convert_4ch_wav_to_rshw on a WAV file               *)

RIFX_TAG == <<82, 73, 70, 88>>          \* b'RIFX'
AVI_TAG  == <<65, 86, 73, 32>>          \* b'AVI '
LIST_TAG == <<76, 73, 83, 84>>          \* b'LIST'

\* chunk orders offered: the usual one, one with a chunk to skip, and files
\* without a fmt chunk, without a data chunk, without any chunk
Layouts == { <<"fmt", "data">>, <<"LIST", "fmt", "data">>, <<"fmt">>, <<"data">>, <<>> }
ChannelCounts == {0, 2, 4}
BitDepths == {4, 8, 12, 16, 24, 32}

\* PCM payloads: none, and 48 bytes (whole sample frames of 4 channels at
\* every supported depth)
Payloads == { <<>>, Flatten(Rep(<<0, 0, 128, 63>>, 12)) }

WavFiles ==
    [riff : {RIFF_TAG, RIFX_TAG}, form : {WAVE_TAG, AVI_TAG}, layout : Layouts,
     num_channels : ChannelCounts, bits_per_sample : BitDepths, pcm_data : Payloads]

\* the bytes of one chunk of the file w
ChunkBytes(w, id) ==
    IF id = "fmt"
    THEN LET block_align == w.num_channels * (w.bits_per_sample \div 8)
         IN  FMT_TAG \o le_bytes(16) \o pack_u16(1) \o pack_u16(w.num_channels)
             \o le_bytes(SAMPLE_RATE) \o le_bytes(SAMPLE_RATE * block_align)
             \o pack_u16(block_align) \o pack_u16(w.bits_per_sample)
    ELSE IF id = "data" THEN DATA_TAG \o le_bytes(Len(w.pcm_data)) \o w.pcm_data
    ELSE LIST_TAG \o le_bytes(4) \o <<73, 78, 70, 79>>

\* the bytes of the file w
WavBytes(w) ==
    LET body == Flatten([k \in 1..Len(w.layout) |-> ChunkBytes(w, w.layout[k])])
    IN  w.riff \o le_bytes(4 + Len(body)) \o w.form \o body

InitWav ==
    /\ NoCodec
    /\ NoBuilder
    /\ NoSync
    /\ NoSim
    /\ audio_data = <<>>
    /\ signal_data = <<>>
    /\ container = <<>>
    /\ td_frames = <<>>
    /\ bd_frames = <<>>
    /\ audio_len = 0
    /\ wav \in WavFiles
    /\ outcome = ""
    /\ text = <<>>
    /\ encoding = <<>>

\* convert_4ch_wav_to_rshw(wav_bytes)
Convert ==
    /\ outcome = ""
    /\ LET c == convert_4ch_wav_to_rshw(WavBytes(wav))
       IN  /\ outcome' = IF c.raised = "" THEN "container" ELSE c.raised
           /\ container' = c.rshw
    /\ UNCHANGED <<audio_data, signal_data, td_frames, bd_frames, audio_len, wav,
                   text, encoding,
                   encVars, fbVars, syncVars, simVars>>

NextWav == Convert
SpecWav == InitWav /\ [][NextWav]_vars

LacksHeader == wav.riff # RIFF_TAG \/ wav.form # WAVE_TAG
LacksChunk == "fmt" \notin Range(wav.layout) \/ "data" \notin Range(wav.layout)
UnsupportedDepth == wav.bits_per_sample \notin {8, 16, 24, 32}
WrongChannelCount == wav.num_channels # 4

\* C15: a file without the RIFF/WAVE header, without a fmt or a data chunk,
\* with a bit depth other than 8, 16, 24, 32 or a channel count other than 4
\* makes the conversion raise ValueError and return no container
C15_ContainerFormatError ==
    (outcome # "" /\ (LacksHeader \/ LacksChunk \/ UnsupportedDepth \/ WrongChannelCount))
        => (outcome = "ValueError" /\ container = <<>>)

----------------------------------------------------------------------------
(* C16: the channel maps                                                    *)

Bits(trk) == {channel_map(trk)[n] : n \in DOMAIN channel_map(trk)}

\* C16: in the map of the builder's track the bit numbers are pairwise
\* distinct, lie in 1..frame_bits and are never a blank position, so the
\* names and the blanks together cover every frame position exactly once
\* (91 TD names, 95 BD names), and the reverse map bit -> name is the exact
\* inverse of the map
C16_ChannelMaps ==
    LET m == channel_map(track)
        back == bit_to_name(track)
    IN  /\ \A a, b \in DOMAIN m : a # b => m[a] # m[b]
        /\ Bits(track) \subseteq 1..frame_bits(track)
        /\ Bits(track) \cap blank_bits(track) = {}
        /\ Bits(track) \cup blank_bits(track) = 1..frame_bits(track)
        /\ Cardinality(DOMAIN m) = IF track = "TD" THEN 91 ELSE 95
        /\ Cardinality(DOMAIN m) + Cardinality(blank_bits(track)) = frame_bits(track)
        /\ DOMAIN back = Bits(track)
        /\ \A n \in DOMAIN m : back[m[n]] = n
        /\ \A b \in DOMAIN back : back[b] \in DOMAIN m /\ m[back[b]] = b

\* a BD builder has switched on the channel of the last frame position and
\* the reverse map names it
C16_Witness ==
    /\ ret.op = "set_channel"
    /\ ~ret.raised
    /\ ret.active
    /\ track = "BD"
    /\ ret.channel = "spot_guitar"
    /\ frame[channel_map(track)[ret.channel]] = 1
    /\ bit_to_name(track)[channel_map(track)[ret.channel]] = ret.channel
    /\ channel_map(track)[ret.channel] = frame_bits(track)

----------------------------------------------------------------------------
(* C17, C18: the shape of the encoder's output                              *)

Opposite(l) == IF l = BMC_HIGH THEN BMC_LOW ELSE BMC_HIGH

\* what the step appended to pcm and to sent
NewSamples == SubSeq(pcm', Len(pcm) + 1, Len(pcm'))
NewBits == SubSeq(sent', Len(sent) + 1, Len(sent'))

\* the level the encoder is at before the k-th bit of the step
LevelBefore(k) == IF k = 1 THEN level ELSE NewSamples[9 * (k - 1)]

\* the samples of the k-th bit of the step
BitSamples(k) == SubSeq(NewSamples, 9 * (k - 1) + 1, 9 * k)

Zeros(s) == Cardinality({i \in 1..Len(s) : s[i] = 0})

\* C17: every encoded bit is exactly 9 samples, each +32767 or -32768, and
\* starts with a transition: a 1 is 4 samples at the flipped level and then 5
\* at the level before the bit, a 0 is 9 samples at the flipped level; a
\* single 1 leaves the encoder level as it was and a single 0 leaves it
\* flipped, and after any bit list the level differs from the level before
\* exactly when the list holds an odd number of 0 bits
C17_BitShape ==
    [][calls' = calls + 1 =>
        /\ Len(NewSamples) = 9 * Len(NewBits)
        /\ \A i \in 1..Len(NewSamples) : NewSamples[i] \in {32767, -32768}
        /\ \A k \in 1..Len(NewBits) :
               BitSamples(k) = IF NewBits[k] = 1
                               THEN Rep(Opposite(LevelBefore(k)), 4) \o Rep(LevelBefore(k), 5)
                               ELSE Rep(Opposite(LevelBefore(k)), 9)
        /\ NewBits = <<1>> => level' = level
        /\ NewBits = <<0>> => level' = Opposite(level)
        /\ (level' # level) <=> (Zeros(NewBits) % 2 = 1)
        /\ NewSamples # <<>> => level' = NewSamples[Len(NewSamples)]]_vars

\* a single 1 was encoded from LOW: 4 samples HIGH, 5 samples LOW, level LOW
C17_Witness ==
    /\ calls = 1
    /\ sent = <<1>>
    /\ pcm = <<32767, 32767, 32767, 32767, -32768, -32768, -32768, -32768, -32768>>
    /\ level = BMC_LOW

\* the lengths of the maximal stretches of equal consecutive samples of s
Starts(s) == SelectSeq([i \in 1..Len(s) |-> i], LAMBDA i : i = 1 \/ s[i] # s[i - 1])
RunLengthsOf(s) ==
    [j \in 1..Len(Starts(s)) |->
        (IF j < Len(Starts(s)) THEN Starts(s)[j + 1] ELSE Len(s) + 1) - Starts(s)[j]]

\* (4, 5) for each 1 and (9) for each 0, bit by bit
BitRuns(b) == Flatten([k \in 1..Len(b) |-> IF b[k] = 1 THEN <<4, 5>> ELSE <<9>>])

\* C18: the run lengths of what encode_bits returns are (4, 5) for each 1
\* and (9) for each 0, bit by bit, and so are those of everything the encoder
\* has put out; from level LOW the list 1,0,1,1,0,0,1,0 gives 72 samples
\* with run lengths 4,5,9,4,5,4,5,9,9,4,5, the first run at +32767
C18_RunLengths ==
    [][calls' = calls + 1 =>
        /\ RunLengthsOf(NewSamples) = BitRuns(NewBits)
        /\ RunLengthsOf(pcm') = BitRuns(sent')
        /\ (level = BMC_LOW /\ NewBits = <<1, 0, 1, 1, 0, 0, 1, 0>>) =>
               /\ Len(NewSamples) = 72
               /\ RunLengthsOf(NewSamples) = <<4, 5, 9, 4, 5, 4, 5, 9, 9, 4, 5>>
               /\ NewSamples[1] = 32767]_vars

\* C18 amended: as C18, the example list giving the twelve run lengths
\* 4,5,9,4,5,4,5,9,9,4,5,9 (the final 0 bit is one more run of 9)
C18_TwelveRuns ==
    [][calls' = calls + 1 =>
        /\ RunLengthsOf(NewSamples) = BitRuns(NewBits)
        /\ RunLengthsOf(pcm') = BitRuns(sent')
        /\ (level = BMC_LOW /\ NewBits = <<1, 0, 1, 1, 0, 0, 1, 0>>) =>
               /\ Len(NewSamples) = 72
               /\ RunLengthsOf(NewSamples) = <<4, 5, 9, 4, 5, 4, 5, 9, 9, 4, 5, 9>>
               /\ NewSamples[1] = 32767]_vars

\* the example byte was encoded by a new encoder and came out as 72 samples
\* in twelve runs, the first at +32767
C18_Witness ==
    /\ calls = 1
    /\ sent = <<1, 0, 1, 1, 0, 0, 1, 0>>
    /\ Len(pcm) = 72
    /\ pcm[1] = 32767
    /\ level = BMC_LOW
    /\ RunLengthsOf(pcm) = <<4, 5, 9, 4, 5, 4, 5, 9, 9, 4, 5, 9>>

----------------------------------------------------------------------------
(* C19: the order of the caller's event list                                *)

Perms(n) == {p \in [1..n -> 1..n] : \A i, j \in 1..n : i # j => p[i] # p[j]}
Permuted(evs, p) == [i \in 1..Len(evs) |-> evs[p[i]]]

\* two events for one channel at one integer sample position
SameSlot(a, b) ==
    a.channel = b.channel /\ time_to_sample(a.time) = time_to_sample(b.time)
NoTies(evs) == \A i, j \in 1..Len(evs) : i < j => ~SameSlot(evs[i], evs[j])

\* the list without the events that a later event of the list ties with
LastOfTies(evs) ==
    LET kept == SelectSeq([i \in 1..Len(evs) |-> i],
                          LAMBDA i : \A j \in (i + 1)..Len(evs) : ~SameSlot(evs[i], evs[j]))
    IN  [k \in 1..Len(kept) |-> evs[kept[k]]]

\* what build gave is what it gives for the list evs
SameBuild(evs) ==
    LET b == build(track, impl, evs, duration)
    IN  b.raised = ret'.raised /\ b.output = output'

\* C19: build leaves the caller's event list as it was; when no two events
\* for one channel share an integer sample position every permutation of the
\* list gives the same bytes; events that tie are applied in the listed
\* order, so the last one listed decides
C19_OrderIndependent ==
    [][ret'.op = "build" =>
        /\ events' = events
        /\ NoTies(events) =>
               \A p \in Perms(Len(events)) :
                   Permuted(events, p) # events => SameBuild(Permuted(events, p))
        /\ ~NoTies(events) => SameBuild(LastOfTies(events))]_vars

\* a TD FrameBuilder was handed the later event first and put out bytes that
\* differ from those of an empty event list
C19_Witness ==
    /\ BuildDone
    /\ track = "TD"
    /\ impl = "FrameBuilder"
    /\ duration = FourFrames(track)
    /\ events = <<Event(MidSecondFrame, "rolfe_mouth", FALSE), Event(0, "rolfe_mouth", TRUE)>>
    /\ output # <<>>
    /\ output # build(track, impl, <<>>, duration).output

----------------------------------------------------------------------------
(* The track argument of the core operations                               *)

\* identifiers offered: the two tracks, one in lower case, an unknown one
TrackIds == {"TD", "BD", "td", "XX"}

MaxTrackFrames == 4

\* frames offered: all bits 0, one channel on, and two channels on
TrackFrames(trk) ==
    {clear_all(trk),
     set_channel(clear_all(trk), trk, NameA(trk), TRUE).frame,
     set_channel(set_channel(clear_all(trk), trk, NameA(trk), TRUE).frame,
                 trk, NameB(trk), TRUE).frame}

TrackStreams ==
    UNION { { Flatten(fs) : fs \in Lists(TrackFrames(trk), MaxTrackFrames) \ {<<>>} }
            : trk \in Tracks }

InitTrack ==
    /\ NoBuilder
    /\ stream \in TrackStreams
    /\ sync = NoResult
    /\ timeline = NoTimeline
    /\ NoCodec
    /\ NoSim
    /\ NoRshw

\* FrameBuilder(track_id) / _FrameBuilder(track_id)
Construct(track_id, imp) ==
    /\ ret.op = "none"
    /\ LET b == new_builder(track_id)
       IN  /\ ret' = Call("new", "", FALSE, b.raised)
           /\ IF b.raised THEN UNCHANGED <<track, impl, frame>>
              ELSE /\ track' = b.track
                   /\ impl' = imp
                   /\ frame' = b.frame
    /\ UNCHANGED <<output, encoded, events, duration,
                   encVars, syncVars, simVars, rshwVars>>

\* sync_frames(stream, track_id)
SyncCall(track_id) ==
    /\ ~sync.called
    /\ sync' = [called |-> TRUE]
                   @@ sync_frames_call(stream, track_id, MAX_SEARCH_BITS) @@ NoResult
    /\ UNCHANGED <<stream, timeline, encVars, fbVars, simVars, rshwVars>>

\* channel_timeline(result.frames, SAMPLE_RATE, BAUD_RATE, track_id): the
\* call returns its dict whatever track_id is
Timeline(track_id) ==
    /\ sync.called
    /\ ~sync.raised
    /\ ~timeline.called
    /\ timeline' = [called |-> TRUE, raised |-> FALSE,
                    by |-> "frame_sync", track_id |-> track_id,
                    intervals |-> channel_timeline(sync.frames, SAMPLE_RATE,
                                                   BAUD_RATE, track_id)]
    /\ UNCHANGED <<stream, sync, encVars, fbVars, simVars, rshwVars>>

\* visualizer_bridge: _channel_timeline(frames, bit_to_name, secs_per_frame,
\* label) on the frames of a track's stream, with that track's map and
\* frame width
BridgeTimeline(trk) ==
    /\ sync.called
    /\ ~sync.raised
    /\ ~timeline.called
    /\ \A i \in 1..Len(sync.frames) : Len(sync.frames[i].bits) = frame_bits(trk)
    /\ timeline' = [called |-> TRUE, raised |-> FALSE,
                    by |-> "visualizer_bridge", track_id |-> trk,
                    intervals |-> bridge_channel_timeline(
                        [i \in 1..Len(sync.frames) |-> sync.frames[i].bits], trk,
                        float_div(float_of(frame_bits(trk)), float_of(BAUD_RATE)))]
    /\ UNCHANGED <<stream, sync, encVars, fbVars, simVars, rshwVars>>

NextTrack ==
    \/ \E id \in TrackIds, imp \in Impls : Construct(id, imp)
    \/ \E id \in TrackIds : SyncCall(id)
    \/ \E id \in TrackIds : Timeline(id)
    \/ \E trk \in Tracks : BridgeTimeline(trk)

SpecTrack == InitTrack /\ [][NextTrack]_vars

\* neither TD nor BD, in whatever case it is written
UnknownTrack(id) == upper(id) \notin Tracks

\* C20: every operation that takes a track identifier (constructing a
\* builder, sync_frames, channel_timeline) raises when the identifier is
\* neither TD nor BD.  channel_timeline does not: it takes every identifier
\* other than "TD" for BD and returns a timeline.
C20_UnknownTrackRaises ==
    [][\A id \in TrackIds :
          UnknownTrack(id) =>
              /\ (\E imp \in Impls : Construct(id, imp)) => ret'.raised
              /\ SyncCall(id) => sync'.raised
              /\ Timeline(id) => timeline'.raised]_vars

\* the two operations that do check the identifier
C20_CheckedOperations ==
    [][\A id \in TrackIds :
          UnknownTrack(id) =>
              /\ (\E imp \in Impls : Construct(id, imp)) => ret'.raised
              /\ SyncCall(id) => sync'.raised]_vars

\* a timeline returned for an unknown identifier
C20_SilentTimeline ==
    /\ timeline.called
    /\ ~timeline.raised
    /\ timeline.intervals = channel_timeline(sync.frames, SAMPLE_RATE, BAUD_RATE, "XX")
    /\ DOMAIN timeline.intervals # {}

----------------------------------------------------------------------------
(* SpecLps: _lps applied to one string                                     *)

MaxTextLen == 3

\* strings offered (as code points): short ones of 'a' and 'é' (two bytes in
\* UTF-8), and runs of either around the lengths where the prefix grows
Texts ==
    Lists({97, 233}, MaxTextLen)
    \cup { Rep(97, n) : n \in (116..140) \cup {300, 16383, 16384} }
    \cup { Rep(233, n) : n \in 60..70 }
    \cup { Rep(233, 63) \o <<97>>, Rep(97, 126) \o <<233>> }

InitLps ==
    /\ NoCodec
    /\ NoBuilder
    /\ NoSync
    /\ NoSim
    /\ audio_data = <<>>
    /\ signal_data = <<>>
    /\ container = <<>>
    /\ td_frames = <<>>
    /\ bd_frames = <<>>
    /\ audio_len = 0
    /\ wav = <<>>
    /\ outcome = ""
    /\ text \in Texts
    /\ encoding = <<>>

\* _lps(text)
Lps ==
    /\ outcome = ""
    /\ encoding' = lps(text)
    /\ outcome' = "lps"
    /\ UNCHANGED <<audio_data, signal_data, container, td_frames, bd_frames,
                   audio_len, wav, text, encVars, fbVars, syncVars, simVars>>

NextLps == Lps
SpecLps == InitLps /\ [][NextLps]_vars

\* the UTF-8 bytes of the strings offered: 'a' is 97, 'é' is 195 169
Utf8Bytes(cs) ==
    LET at == [i \in 1..Len(cs) |-> i + Cardinality({j \in 1..(i - 1) : cs[j] = 233})]
        n == Len(cs) + Cardinality({j \in 1..Len(cs) : cs[j] = 233})
    IN  IF n = Len(cs) THEN cs
        ELSE [k \in 1..n |->
                 LET i == CHOOSE i \in 1..Len(cs) :
                              at[i] = k \/ (cs[i] = 233 /\ at[i] + 1 = k)
                 IN  IF cs[i] = 97 THEN 97 ELSE IF at[i] = k THEN 195 ELSE 169]

\* the prefix of an encoding: up to and including its first byte below 128
PrefixLen(bs) == CHOOSE n \in 1..Len(bs) : bs[n] < 128 /\ \A i \in 1..(n - 1) : bs[i] >= 128

\* the number a prefix of at most three bytes stands for
PrefixValue(bs, n) ==
    (bs[1] % 128)
    + (IF n >= 2 THEN (bs[2] % 128) * 128 ELSE 0)
    + (IF n >= 3 THEN (bs[3] % 128) * 16384 ELSE 0)

\* C21: the encoding of a string whose UTF-8 form has L bytes is a prefix
\* followed by exactly those L bytes and nothing more; the prefix has one
\* byte when L < 128, two when 128 <= L < 16384, every prefix byte but the
\* last is 128 or more and the last is below 128, and the 7-bit groups of the
\* prefix, least significant first, give back L
C21_LengthPrefix ==
    outcome = "lps" =>
        LET body == Utf8Bytes(text)
            L == Len(body)
            n == PrefixLen(encoding)
        IN  /\ encoding # <<>>
            /\ \E k \in 1..Len(encoding) : encoding[k] < 128
            /\ n = (IF L < 128 THEN 1 ELSE IF L < 16384 THEN 2 ELSE 3)
            /\ PrefixValue(encoding, n) = L
            /\ Len(encoding) = n + L
            /\ SubSeq(encoding, n + 1, Len(encoding)) = body

C21_Witness ==
    /\ outcome = "lps"
    /\ text = Rep(233, 64)
    /\ SubSeq(encoding, 1, 4) = <<128, 1, 195, 169>>
    /\ Len(encoding) = 130

----------------------------------------------------------------------------
(* The order in which the decoder classifies runs                          *)

\* the windows at 44100 Hz / 4800 baud for the two tolerances offered
FullWindow == IF tol = 0 THEN 9..10 ELSE 6..12
HalfWindow == IF tol = 0 THEN 4..5 ELSE 3..6

RunLength(i) == Runs[i][2]

\* what the walk from run i on emits, one entry per classification: the run
\* it starts at, the runs it consumes, and either a bit with its tolerance
\* flag or a DecodeError; a HALF run with no run after it is "last"
RECURSIVE Classified(_, _)
Classified(runs, i) ==
    IF i > Len(runs) THEN <<>>
    ELSE LET r == runs[i][2]
             emit(kind, bit, ok, used) ==
                 <<[kind |-> kind, run |-> i, bit |-> bit, ok |-> ok, used |-> used]>>
         IN  IF r \in FullWindow
             THEN emit("bit", 0, TRUE, 1) \o Classified(runs, i + 1)
             ELSE IF r \notin HalfWindow
             THEN emit("error", 0, FALSE, 1) \o Classified(runs, i + 1)
             ELSE IF i = Len(runs) THEN emit("last", 1, FALSE, 1)
             ELSE IF runs[i + 1][2] \in HalfWindow
             THEN emit("bit", 1, TRUE, 2) \o Classified(runs, i + 2)
             ELSE IF r + runs[i + 1][2] \in FullWindow
             THEN emit("bit", 1, FALSE, 2) \o Classified(runs, i + 2)
             ELSE emit("error", 0, FALSE, 1) \o Classified(runs, i + 1)

EntriesOf(kind) == SelectSeq(Classified(Runs, 1), LAMBDA e : e.kind = kind)

\* the decoded bit b is the one the entry e stands for
BitIs(b, e, runs) ==
    /\ b.bit = e.bit
    /\ b.sample_pos = runs[e.run][1]
    /\ b.run_a = runs[e.run][2]
    /\ b.in_tolerance = e.ok
    /\ b.run_b = (IF e.used = 2 THEN runs[e.run + 1][2] ELSE None)

ErrorIs(x, e, runs) ==
    /\ x.sample_pos = runs[e.run][1]
    /\ x.run_length = runs[e.run][2]

RunLengths == [i \in 1..Len(Runs) |-> RunLength(i)]

----------------------------------------------------------------------------
(* The two decoders: rshw_builder._decode_bmc and BMCDecoder.decode        *)

\* C23: for every sample sequence, with the same sample rate, baud rate,
\* tolerance and zero threshold, _decode_bmc of the container ingestion path
\* returns exactly the bit values BMCDecoder.decode returns.  It does not:
\* a HALF run that ends the stream is bit 1 for BMCDecoder and nothing for
\* _decode_bmc.
C23_SameBits ==
    decode_bmc(pcm, SAMPLE_RATE, BAUD_RATE, tol, ZERO_THRESHOLD) = BitValues(Decoded.bits)

\* the two agree whenever the classification does not end on a lone HALF run
C23_SameBitsButLast ==
    EntriesOf("last") = <<>> => C23_SameBits

----------------------------------------------------------------------------
(* Phase continuity of the stream build returns                            *)

\* C24: the PCM build returns has no run of equal consecutive samples longer
\* than N = 9, whatever the events and the duration.  FrameBuilder.build
\* breaks it where an event falls inside a frame period: the frame is cut
\* there, while the next frame is encoded from the level at the end of the
\* whole frame.
C24_BuildPhaseContinuity ==
    BuildDone => NoRunLongerThan(unpack_samples(output), SAMPLES_PER_BIT)

\* the export-bridge copy, which snaps events to frame boundaries, keeps it
C24_BridgePhaseContinuity == impl = "_FrameBuilder" => C24_BuildPhaseContinuity

----------------------------------------------------------------------------
(* The offset the lock search returns                                      *)

\* the best run of clean frames over the candidates the search examines
BestRun == IF SearchWindow = {} THEN 0
           ELSE CHOOSE r \in 0..3 : /\ \E c \in SearchWindow : CleanRun(c) = r
                                    /\ \A c \in SearchWindow : CleanRun(c) <= r

\* the earliest examined candidate with a run of r clean frames
EarliestWith(r) ==
    CHOOSE c \in SearchWindow :
        CleanRun(c) = r /\ \A d \in SearchWindow : d < c => CleanRun(d) # r

\* the offsets of the search window: 0 .. max_search_bits - 1
WholeWindow == 0..(MAX_SEARCH_BITS - 1)

\* the highest score an offset of the search window has
HighestScore ==
    CHOOSE r \in 0..3 : /\ \E c \in WholeWindow : CleanRun(c) = r
                        /\ \A d \in WholeWindow : CleanRun(d) <= r

\* the earliest offset of the search window with a run of r clean frames
EarliestInWindow(r) ==
    CHOOSE c \in WholeWindow :
        CleanRun(c) = r /\ \A d \in WholeWindow : d < c => CleanRun(d) # r

\* C25: with a lock, lock_offset is the smallest offset of the search window
\* [0, 500) from which three consecutive frames have every blank index 0;
\* when no offset of the window has three such frames, the returned offset
\* is the earliest one among those with the highest score.  The second part
\* fails: the search stops 3 frame widths before the end of the stream, so
\* an offset with two clean frames near the end is never scored.
C25_EarliestBestInWindow ==
    sync.called =>
        /\ sync.locked =>
               sync.lock_offset = EarliestInWindow(3)
        /\ HighestScore < 3 =>
               ~sync.locked /\ sync.lock_offset = EarliestInWindow(HighestScore)

\* over the offsets the search does examine: there is a lock exactly when one
\* of them has three clean frames, and the offset returned is the earliest
\* one with the best run
C25_EarliestBestExamined ==
    sync.called =>
        /\ sync.locked <=> BestRun = 3
        /\ sync.score = BestRun
        /\ SearchWindow # {} => sync.lock_offset = EarliestWith(BestRun)

\* one dirty frame and four clear ones: the lock is at bit 39, inside the
\* dirty frame, though the clear frames start at bit 94
C25_GreedyLock ==
    /\ sync.called
    /\ sync.locked
    /\ track = "TD"
    /\ stream = DirtyFrame("TD") \o Flatten(Rep(clear_all("TD"), 4))
    /\ sync.lock_offset = 39
    /\ CleanRun(94) = 3

----------------------------------------------------------------------------
(* sync_frames: the frames extracted from the returned offset              *)

\* the mapped 1-based positions of a window that hold 1, ascending
OnPositions(w) ==
    SelectSeq([p \in 1..Len(w) |-> p],
              LAMBDA p : w[p] = 1 /\ p \in DOMAIN bit_to_name(track))

\* their channel names, in that order
OnNames(w) ==
    LET ps == OnPositions(w)
    IN  [j \in 1..Len(ps) |-> bit_to_name(track)[ps[j]]]

\* C26: sync_frames returns floor((len(bits) - lock_offset) / frame_bits)
\* frames (none for a stream shorter than a frame); frame i has frame_index
\* i, bit_offset lock_offset + i*frame_bits and the bits of that window; the
\* windows do not overlap, the bits after the last whole window are dropped
\* and orphan_bits = lock_offset; blank_ok holds exactly when every blank
\* index of the window is 0, and active_channels is the names of the mapped
\* positions holding 1 in ascending bit order, a blank position never among
\* them.
C26_FrameExtraction ==
    sync.called =>
        /\ FramesStartAt(sync.lock_offset)
        /\ sync.orphan_bits = sync.lock_offset
        /\ Len(stream) < frame_bits(track) => sync.frames = <<>>
        /\ \A i \in 1..Len(sync.frames) :
              LET f == sync.frames[i]
              IN  /\ Len(f.bits) = frame_bits(track)
                  /\ f.bit_offset + frame_bits(track) <= Len(stream)
                  /\ i > 1 =>
                        sync.frames[i - 1].bit_offset + frame_bits(track)
                            <= f.bit_offset
                  /\ f.blank_ok <=> \A b \in BlankIndices : f.bits[b] = 0
                  /\ f.active_channels = OnNames(f.bits)
                  /\ \A b \in BlankIndices :
                        \A j \in 1..Len(f.active_channels) :
                            OnPositions(f.bits)[j] # b

\* a dirty frame, three clear ones and a dirty one, locked at bit 39: four
\* frames, the last with 1 at its blank positions 56, 65 and 70 and the 36
\* mapped positions of 56..94 listed, and 55 trailing bits dropped
C26_Witness ==
    /\ sync.called
    /\ track = "TD"
    /\ Len(stream) = 5 * TD_FRAME_BITS
    /\ sync.lock_offset = 39
    /\ sync.orphan_bits = 39
    /\ Len(sync.frames) = 4
    /\ sync.frames[1].blank_ok
    /\ Len(sync.frames[1].active_channels) = 55
    /\ ~sync.frames[4].blank_ok
    /\ sync.frames[4].bit_offset = 321
    /\ Len(sync.frames[4].active_channels) = 36

\* a stream shorter than one frame gives no frames
C26_ShortStream ==
    /\ sync.called
    /\ Len(stream) = MaxTailBits
    /\ sync.frames = <<>>

----------------------------------------------------------------------------
(* channel_timeline: one interval per run of frames with the channel on    *)

\* T = frame_bits / baud_rate for the track the timeline was asked for
FramePeriod ==
    float_div(float_of(frame_bits(timeline.track_id)), float_of(BAUD_RATE))

\* x < y for floats x, y >= 0
FloatLess(x, y) ==
    IF y.m = BigZero THEN FALSE
    ELSE IF x.m = BigZero THEN TRUE
    ELSE x.e < y.e \/ (x.e = y.e /\ ~BigGeq(x.m, y.m))

\* channel ch is listed in frame i (1-based) of the frame list
ActiveIn(ch, i) ==
    \E j \in 1..Len(sync.frames[i].active_channels) :
        sync.frames[i].active_channels[j] = ch

\* the frames at which a maximal run of ch begins
RunStarts(ch) ==
    {a \in 1..Len(sync.frames) : ActiveIn(ch, a) /\ (a = 1 \/ ~ActiveIn(ch, a - 1))}

\* the first frame after a at which ch is off, or one past the last frame
RunEnd(ch, a) ==
    CHOOSE b \in (a + 1)..(Len(sync.frames) + 1) :
        /\ b = Len(sync.frames) + 1 \/ ~ActiveIn(ch, b)
        /\ \A i \in a..(b - 1) : ActiveIn(ch, i)

\* the k-th run start of ch
KthStart(ch, k) ==
    CHOOSE a \in RunStarts(ch) : Cardinality({x \in RunStarts(ch) : x < a}) = k - 1

\* the intervals the runs of ch give: frame a (1-based) has index a - 1
RunIntervals(ch) ==
    [k \in 1..Cardinality(RunStarts(ch)) |->
        <<float_times(FramePeriod, KthStart(ch, k) - 1),
          float_times(FramePeriod, RunEnd(ch, KthStart(ch, k)) - 1)>>]

\* the channels of the frames, of the timeline, and the two the frames offer
TimelineChannels ==
    UNION { {f.active_channels[j] : j \in 1..Len(f.active_channels)}
            : f \in Range(sync.frames) }
    \cup DOMAIN timeline.intervals
    \cup UNION { {NameA(trk), NameB(trk)} : trk \in Tracks }

\* C27: for the frames sync_frames returned and every channel, the timeline
\* (channel_timeline, and _channel_timeline of the export visualizer) has
\* for that channel exactly one interval per maximal run of consecutive
\* frames a..b-1 with the channel listed, from a*T to b*T with
\* T = frame_bits/baud_rate; a run that reaches the last frame ends at
\* frame_count*T; the intervals of a channel are in increasing order and do
\* not overlap, and a channel that is never listed has no entry.
C27_TimelineRuns ==
    (timeline.called /\ timeline.track_id \in Tracks) =>
        \A ch \in TimelineChannels :
            IF RunStarts(ch) = {} THEN ch \notin DOMAIN timeline.intervals
            ELSE /\ ch \in DOMAIN timeline.intervals
                 /\ timeline.intervals[ch] = RunIntervals(ch)
                 /\ \A k \in 1..Len(timeline.intervals[ch]) :
                       LET iv == timeline.intervals[ch]
                       IN  /\ FloatLess(iv[k][1], iv[k][2])
                           /\ k > 1 => FloatLess(iv[k - 1][2], iv[k][1])

\* four TD frames, channel A on in frames 0, 2 and 3 and channel B in frame 2
\* only: A has the intervals (0, T) and (2T, 4T), the second closed at the
\* end of the stream, B has (2T, 3T)
C27_Witness ==
    /\ timeline.called
    /\ timeline.by = "frame_sync"
    /\ timeline.track_id = "TD"
    /\ Len(sync.frames) = 4
    /\ Len(sync.frames[1].bits) = TD_FRAME_BITS
    /\ DOMAIN timeline.intervals = {NameA("TD"), NameB("TD")}
    /\ timeline.intervals[NameA("TD")] =
           << <<float_of(0), FramePeriod>>,
              <<float_times(FramePeriod, 2), float_times(FramePeriod, 4)>> >>
    /\ timeline.intervals[NameB("TD")] =
           << <<float_times(FramePeriod, 2), float_times(FramePeriod, 3)>> >>

\* the same timeline from the export visualizer's _channel_timeline
C27_BridgeWitness ==
    /\ timeline.called
    /\ timeline.by = "visualizer_bridge"
    /\ timeline.track_id = "TD"
    /\ Len(sync.frames) = 4
    /\ DOMAIN timeline.intervals = {NameA("TD"), NameB("TD")}
    /\ Len(timeline.intervals[NameA("TD")]) = 2
    /\ timeline.intervals[NameB("TD")] =
           << <<float_times(FramePeriod, 2), float_times(FramePeriod, 3)>> >>

----------------------------------------------------------------------------
(* The decoder: a HALF run that ends the stream                            *)

\* the last run is in the HALF window and not in the FULL window
LastRunIsHalf(runs) ==
    /\ runs # <<>>
    /\ runs[Len(runs)][2] \in HalfWindow \ FullWindow

\* the last decoded bit of d is a 1 made of the last run alone, flagged
\* out-of-tolerance, and the last run is not the reason of an error
LastRunIsLoneOne(runs, d) ==
    /\ d.bits # <<>>
    /\ LET b == d.bits[Len(d.bits)]
       IN  /\ b.bit = 1
           /\ b.sample_pos = runs[Len(runs)][1]
           /\ b.run_a = runs[Len(runs)][2]
           /\ b.run_b = None
           /\ ~b.in_tolerance
    /\ \A k \in 1..Len(d.errors) : d.errors[k].sample_pos # runs[Len(runs)][1]

\* the last run is the second run of the last decoded bit of d
LastRunEndsBit(runs, d) ==
    /\ Len(runs) > 1
    /\ d.bits # <<>>
    /\ d.bits[Len(d.bits)].sample_pos = runs[Len(runs) - 1][1]
    /\ d.bits[Len(d.bits)].run_b = runs[Len(runs)][2]

\* the export visualizer's decoder, which always has the 30% windows
BridgeDecoded == bridge_decode_bmc(pcm, SAMPLE_RATE)

----------------------------------------------------------------------------
(* build on a builder that has been used                                   *)

\* the step is a build call that returns
BuildReturns == ret'.op = "build" /\ ~ret'.raised

\* C29: the bytes build(events, duration) returns depend only on the track,
\* the events and the duration: whatever set_channel, clear_all and build
\* calls came before on the same builder, the call raises or returns as on a
\* new builder of the track and returns the same bytes; a build that follows
\* a build with the same arguments returns the same bytes again; and after
\* build the frame state is what applying all the events in sample order to
\* an all-zero frame gives.
C29_BuildIndependent ==
    [][ret'.op = "build" =>
          LET b == build(track, impl, events', duration')
          IN  /\ ret'.raised = b.raised
              /\ output' = b.output
              /\ (BuildDone /\ BuildReturns /\ events' = events /\ duration' = duration)
                     => output' = output
              /\ BuildReturns =>
                     frame' = ApplyEvents(clear_all(track), track,
                                          sorted_events(events'))]_vars

\* a build in a session with two events of one channel, the later one listed
\* first: the bytes are those a new builder returns, and the channel is on
\* afterwards, as the event later in time has it
C29_Witness ==
    /\ BuildDone
    /\ track = "TD"
    /\ events = <<Event(MidSecondFrame, NameA("TD"), TRUE), Event(0, NameA("TD"), FALSE)>>
    /\ duration = MidSecondFrame
    /\ frame = set_channel(clear_all("TD"), "TD", NameA("TD"), TRUE).frame
    /\ output = build("TD", impl, events, duration).output
    /\ Len(output) = 4 * frame_samps("TD")

----------------------------------------------------------------------------
(* Run extraction as a function of the samples                             *)

\* sample values offered: full scale, and the values next to the threshold
EdgeAmplitudes ==
    {BMC_HIGH, BMC_LOW, ZERO_THRESHOLD, -ZERO_THRESHOLD,
     ZERO_THRESHOLD - 1, 1 - ZERO_THRESHOLD, 0}

MaxSamples == 4

\* the buffer grows by one sample of value v
AppendSample(v) ==
    /\ Len(pcm) < MaxSamples
    /\ pcm' = Append(pcm, v)
    /\ UNCHANGED <<level, sent, seam, tol, calls, fbVars, syncVars, simVars, rshwVars>>

InitRuns ==
    /\ tol = TOLERANCE_FACTOR
    /\ pcm = <<>>
    /\ calls = 0
    /\ level = BMC_LOW
    /\ sent = <<>>
    /\ seam = 0
    /\ NoBuilder
    /\ NoSync
    /\ NoSim
    /\ NoRshw

NextRuns == \E v \in EdgeAmplitudes : AppendSample(v)

SpecRuns == InitRuns /\ [][NextRuns]_vars

\* sample i (1-based) is at or above the threshold; its polarity
Loud(i) == Abs(pcm[i]) >= ZERO_THRESHOLD
Positive(i) == pcm[i] > 0

\* the 1-based sample positions of run k
RunSpan(k) == (Runs[k][1] + 1)..(Runs[k][1] + Runs[k][2])

\* C30: with the threshold 200, run extraction returns runs in increasing
\* start order that are pairwise disjoint and together cover exactly the
\* samples with |s| >= zero_threshold; each run is a maximal stretch of
\* adjacent such samples of one sign: a sample below the threshold between
\* two stretches of one sign is in neither and splits them, and a change of
\* sign starts a new run.
C30_RunExtraction ==
    /\ \A k \in 1..Len(Runs) :
          /\ Runs[k][2] >= 1
          /\ RunSpan(k) \subseteq 1..Len(pcm)
          /\ k > 1 => Runs[k - 1][1] + Runs[k - 1][2] <= Runs[k][1]
          /\ \A i \in RunSpan(k) : Loud(i) /\ Positive(i) = Positive(Runs[k][1] + 1)
          /\ Runs[k][1] >= 1 =>
                ~Loud(Runs[k][1]) \/ Positive(Runs[k][1]) # Positive(Runs[k][1] + 1)
          /\ Runs[k][1] + Runs[k][2] < Len(pcm) =>
                LET after == Runs[k][1] + Runs[k][2] + 1
                IN  ~Loud(after) \/ Positive(after) # Positive(Runs[k][1] + 1)
    /\ \A i \in 1..Len(pcm) :
          /\ Loud(i) <=> \E k \in 1..Len(Runs) : i \in RunSpan(k)
          /\ (i > 1 /\ Loud(i) /\ (~Loud(i - 1) \/ Positive(i - 1) # Positive(i)))
                => \E k \in 1..Len(Runs) : Runs[k][1] = i - 1

\* samples 200, 199, 200, -200: the sample at 199 is in no run and splits
\* the positive samples in two runs, and the change of sign starts a third
C30_Witness ==
    /\ pcm = <<ZERO_THRESHOLD, ZERO_THRESHOLD - 1, ZERO_THRESHOLD, -ZERO_THRESHOLD>>
    /\ Runs = << <<0, 1>>, <<2, 1>>, <<3, 1>> >>

====
